---- MODULE Spec2Model ----
(***************************************************************************)
(* State-machine model of the command-line tools of claude-code-skills.   *)
(*                                                                         *)
(*   SpecBuild   build.py: the archive builder run against a git          *)
(*               repository (HEAD tree, index, working tree) that other   *)
(*               git commands may change between the builder's calls.     *)
(*   SpecSetup   skills/agile-board/scripts/setup.py: the setup wizard    *)
(*               and the four files it writes.                            *)
(*                                                                         *)
(* A path is the sequence of its components: skills/a/SKILL.md is         *)
(* <<"skills", "a", "SKILL.md">>.                                         *)
(***************************************************************************)
EXTENDS Integers, Sequences, FiniteSets, TLC

VARIABLES
    \* ---- build.py: the repository and the output tree
    head,           \* files of the HEAD commit's tree
    index,          \* tracked files (what git ls-files reports)
    worktree,       \* files present on disk
    edits,          \* git commands run so far by the environment
    dist_dir,       \* output_dir exists
    skills_dir,     \* output_dir/skills exists
    full_zip,       \* claude-code-skills-{version}.zip
    skill_zips,     \* skills/{name}.zip, per name
    \* ---- build.py: one run of main()
    args_list,      \* --list
    pc,             \* position in main()
    skills,         \* result of discover_skills
    built,          \* archives appended to `built` so far (loop position)
    stdout,         \* lines printed
    exit_code,      \* exit status once pc = "done"
    error,          \* what ended the run: "none", a sys.exit(1) message, or an uncaught exception
    runs,           \* runs of main() started so far
    \* ---- setup.py: the files the wizard reads and writes
    config_file,    \* <project>/.claude/agile-board-config.json
    claude_json,    \* ~/.claude.json
    settings_file,  \* ~/.claude/settings.json
    gitignore_file, \* <project>/.gitignore
    \* ---- setup.py: one run of main()
    args_force,     \* --force
    wpc,            \* position in main() / setup_zenhub()
    overwrite,      \* answer to the overwrite prompt
    board_type,
    repository_id,
    workspace_id,
    workspaces,     \* result of fetch_zenhub_workspaces
    default_pipeline_id,
    default_pipeline_name,
    pipelines,      \* result of fetch_workspace_pipelines
    organization_id,
    config,         \* the dict main() dumps into the project config
    mcp_config,     \* the MCP server descriptor, or None
    choice,         \* the answer the last step read at a numbered prompt
    inputs,         \* what the last step read: arguments supplied, answers, lookup result
    wexit,          \* exit status once wpc = "done"
    werror          \* what ended the run, or the last error reported

bvars == <<head, index, worktree, edits, dist_dir, skills_dir, full_zip,
           skill_zips, args_list, pc, skills, built, stdout, exit_code, error, runs>>

fvars == <<config_file, claude_json, settings_file, gitignore_file>>

wvars == <<fvars, args_force, wpc, overwrite, board_type, repository_id, workspace_id,
           workspaces, default_pipeline_id, default_pipeline_name, pipelines,
           organization_id, config, mcp_config, choice, inputs, wexit, werror>>

\* two invocations of setup.py on the same home directory
VARIABLES
    rkind,          \* the integration kind of each invocation
    rpc,            \* where each invocation is in its two update functions
    rdata,          \* the document each invocation loaded and has not yet written
    rlog,           \* the reads and writes of the home-directory files, in order
    rstart          \* the two files before either invocation

rvars == <<rkind, rpc, rdata, rlog, rstart>>

\* convert-docs-to-md.py: one invocation of the document converter
VARIABLES
    cargs,          \* the parsed command line: mode, --overwrite, --delete-original
    tools,          \* which converters the machine has
    docs,           \* --file, or the files of --folder in the order they are listed
    folder_exists,  \* whether --folder is there
    workbook,       \* what openpyxl loads from a spreadsheet
    targets,        \* the .md files, by stem
    cpc,            \* where main() is
    cqueue,         \* supported_files not yet converted
    invoked,        \* the converters invoked so far, with the file each was given
    success_count,
    fail_count,
    cout,           \* the summary lines printed
    cexit           \* the exit status, 0 until main() sets it

cvars == <<cargs, tools, docs, folder_exists, workbook, targets, cpc, cqueue, invoked,
           success_count, fail_count, cout, cexit>>

\* sharepoint-access.py: one invocation of the file browser
VARIABLES
    sp_url,         \* --url
    sp_action,      \* --action
    hostname,
    site_path,
    item_path,
    access_token,
    site_id,
    drive_id,
    sp_pc,          \* where main() is
    sp_exit

\* setup-linting.py: one LintingSetup object
VARIABLES
    on_disk,            \* what the machine and the project have
    detected_languages,
    pre_commit_hooks,
    config_yaml,        \* .pre-commit-config.yaml
    generated,          \* calls of generate_pre_commit_config so far
    lint_pc,            \* where run() is
    lint_error          \* the exception that ended the last step, NONE otherwise

\* every external command and network request of the two tools, in order
VARIABLES issued

svars == <<sp_url, sp_action, hostname, site_path, item_path, access_token, site_id,
           drive_id, sp_pc, sp_exit>>
lvars == <<on_disk, detected_languages, pre_commit_hooks, config_yaml, generated,
           lint_pc, lint_error>>

vars == <<bvars, wvars, rvars, cvars, svars, lvars, issued>>

\* what the actions of one tool leave alone
NotBuild == <<wvars, rvars, cvars, svars, lvars, issued>>
NotSetup == <<bvars, rvars, cvars, svars, lvars, issued>>
NotConvert == <<bvars, wvars, rvars, svars, lvars, issued>>
NotSharePoint == <<bvars, wvars, rvars, cvars, lvars>>
NotLint == <<bvars, wvars, rvars, cvars, svars>>
NotRace == <<bvars, cvars, svars, lvars, issued, config_file, gitignore_file, args_force, wpc, overwrite, board_type,
             repository_id, workspace_id, workspaces, default_pipeline_id,
             default_pipeline_name, pipelines, organization_id, config, mcp_config,
             choice, inputs, wexit, werror>>

\* ------------------------------------------------------------------ bounds

\* changes of the index or the working tree (git add, git rm, rm) over one behaviour
MaxEdits == 1
\* runs of build.py over one behaviour (a later run finds the earlier archives)
MaxRuns == 2
\* workspaces / pipelines the ZenHub API returns at most
MaxItems == 2

\* ------------------------------------------------------------- repository

MARKER == "SKILL.md"

Paths ==
    { <<"README.md">>,
      <<"skills", "a", "SKILL.md">>,
      <<"skills", "a", "run.py">>,
      <<"skills", "b", "SKILL.md">>,
      <<"skills", "b", "SKILL.md", "x">> }

SkillNames == { p[2] : p \in { q \in Paths : Len(q) >= 2 } }

\* sorted(): Python compares the path strings character by character
\* ("S" < "r" since upper case sorts first, "/" sorts before letters)
PathOrder ==
    << <<"README.md">>,
       <<"skills", "a", "SKILL.md">>,
       <<"skills", "a", "run.py">>,
       <<"skills", "b", "SKILL.md">>,
       <<"skills", "b", "SKILL.md", "x">> >>

NameOrder == << "a", "b" >>

Range(s) == { s[i] : i \in DOMAIN s }

RECURSIVE Filter(_, _)
Filter(seq, S) ==
    IF seq = << >> THEN << >>
    ELSE IF Head(seq) \in S THEN << Head(seq) >> \o Filter(Tail(seq), S)
         ELSE Filter(Tail(seq), S)

SortedPaths(S) == Filter(PathOrder, S)
SortedNames(S) == Filter(NameOrder, S)

IsPrefix(p, q) == Len(p) <= Len(q) /\ SubSeq(q, 1, Len(p)) = p

\* a file cannot also be a directory
TreeOk(S) == \A p, q \in S : p # q => ~IsPrefix(p, q)

NoArchive == [exists |-> FALSE, entries |-> {}]
Archive(E) == [exists |-> TRUE, entries |-> E]

Line(kind, name, path, n) == [kind |-> kind, name |-> name, path |-> path, n |-> n]

\* ------------------------------------------------------------ build.py

\* git ls-files [path]: the tracked files under the pathspec, sorted
ls_files(path) == SortedPaths({ f \in index : IsPrefix(path, f) })

\* git status --porcelain is non-empty
get_uncommitted_changes == head # index \/ index # worktree

\* (mutant) the archive is built from the index instead of the HEAD commit
git_archive_index == index

\* the tree git archive HEAD exports
git_archive == head

\* the name at parts[1] of every tracked path whose parts[2] is the marker
discover_skills ==
    SortedNames({ f[2] : f \in { g \in Range(ls_files(<<"skills">>)) :
                                    Len(g) >= 3 /\ g[3] = MARKER } })

skill_src_prefix(skill_name) == <<"skills", skill_name>>

\* skills/<name>/<rest>  ->  <name>/<rest>
arcname(skill_name, git_path) ==
    <<skill_name>> \o SubSeq(git_path, Len(skill_src_prefix(skill_name)) + 1, Len(git_path))

\* zf.write() in list order; the first file missing on disk raises and ends the loop
RECURSIVE WrittenBeforeError(_, _)
WrittenBeforeError(skill_name, tracked) ==
    IF tracked = << >> \/ Head(tracked) \notin worktree THEN {}
    ELSE { arcname(skill_name, Head(tracked)) }
            \cup WrittenBeforeError(skill_name, Tail(tracked))

AllOnDisk(tracked) == Range(tracked) \subseteq worktree

\* format_size(path): path.stat() raises when the file does not exist
format_size_ok(archive) == archive.exists

\* ------------------------------------------------------------ environment

\* the builder is not involved
Outside ==
    UNCHANGED <<dist_dir, skills_dir, full_zip, skill_zips, args_list, pc,
                skills, built, stdout, exit_code, error, runs>>
    /\ UNCHANGED NotBuild

\* a change of the index or the working tree
Edit ==
    /\ edits < MaxEdits
    /\ edits' = edits + 1
    /\ Outside

\* git commit of what is staged
GitCommit ==
    /\ head # index
    /\ head' = index
    /\ UNCHANGED <<index, worktree, edits>>
    /\ Outside

\* create a file and git add it
GitAdd ==
    \E p \in Paths \ (index \cup worktree) :
        /\ TreeOk(index \cup worktree \cup {p})
        /\ index' = index \cup {p}
        /\ worktree' = worktree \cup {p}
        /\ UNCHANGED head
        /\ Edit

\* git rm
GitRm ==
    \E p \in index :
        /\ index' = index \ {p}
        /\ worktree' = worktree \ {p}
        /\ UNCHANGED head
        /\ Edit

\* rm of a tracked file, not staged
RmWorktree ==
    \E p \in index \cap worktree :
        /\ worktree' = worktree \ {p}
        /\ UNCHANGED <<head, index>>
        /\ Edit

\* ------------------------------------------------------------ main()

Repo == <<head, index, worktree, edits>>
Dist == <<dist_dir, skills_dir, full_zip, skill_zips>>

Exit(code, why) ==
    /\ pc' = "done"
    /\ exit_code' = code
    /\ error' = why

Running == UNCHANGED <<exit_code, error>>

\* main(), lines 172-182: the arguments are parsed, --list is tested
ParseArgs ==
    /\ pc = "start"
    /\ pc' = IF args_list THEN "list" ELSE "warn"
    /\ Running
    /\ UNCHANGED <<Repo, Dist, args_list, skills, built, stdout, runs>>
    /\ UNCHANGED NotBuild

\* main(), lines 183-187: the full listing, or exit 1 when git ls-files fails
ListAll ==
    /\ pc = "list"
    /\ \E git_ok \in BOOLEAN :
        IF git_ok
        THEN LET all_files == ls_files(<< >>) IN
             /\ stdout' = stdout
                    \o << Line("full", "", << >>, Len(all_files)) >>
                    \o [i \in 1..Len(all_files) |-> Line("file", "", all_files[i], 0)]
             /\ pc' = "list_discover"
             /\ Running
        ELSE /\ Exit(1, "git ls-files failed")
             /\ UNCHANGED stdout
    /\ UNCHANGED <<Repo, Dist, args_list, skills, built, runs>>
    /\ UNCHANGED NotBuild

\* main(), lines 188-189
ListDiscover ==
    /\ pc = "list_discover"
    /\ \E git_ok \in BOOLEAN :
        IF git_ok
        THEN /\ skills' = discover_skills
             /\ stdout' = Append(stdout, Line("skills", "", << >>, Len(discover_skills)))
             /\ pc' = "list_skills"
             /\ Running
        ELSE /\ Exit(1, "git ls-files failed")
             /\ UNCHANGED <<skills, stdout>>
    /\ built' = 0
    /\ UNCHANGED <<Repo, Dist, args_list, runs>>
    /\ UNCHANGED NotBuild

\* (mutant) the return after the listing is missing: main() falls through to the build
AfterListFallThrough == "warn"

\* where main() goes after the listing loop: line 193, return
AfterList == "done"

\* main(), lines 190-193: one line per skill, its name and its file count
ListSkill ==
    /\ pc = "list_skills"
    /\ IF built < Len(skills)
       THEN \E git_ok \in BOOLEAN :
            IF git_ok
            THEN LET s == skills[built + 1]
                     files == ls_files(skill_src_prefix(s)) IN
                 /\ stdout' = Append(stdout, Line("skill", s, << >>, Len(files)))
                 /\ built' = built + 1
                 /\ UNCHANGED pc /\ Running
            ELSE /\ Exit(1, "git ls-files failed")
                 /\ UNCHANGED <<stdout, built>>
       ELSE /\ pc' = AfterList
            /\ Running
            /\ UNCHANGED <<stdout, built>>
    /\ UNCHANGED <<Repo, Dist, args_list, skills, runs>>
    /\ UNCHANGED NotBuild

\* main(), lines 195-204
WarnUncommitted ==
    /\ pc = "warn"
    /\ stdout' = IF get_uncommitted_changes
                 THEN Append(stdout, Line("warn_uncommitted", "", << >>, 0))
                 ELSE stdout
    /\ pc' = "full"
    /\ Running
    /\ UNCHANGED <<Repo, Dist, args_list, skills, built, runs>>
    /\ UNCHANGED NotBuild

\* build_full and main(), lines 209-211
build_full ==
    /\ pc = "full"
    /\ dist_dir' = TRUE
    /\ \E git_ok \in BOOLEAN :
        IF git_ok
        THEN /\ full_zip' = Archive(git_archive)
             /\ stdout' = Append(stdout, Line("full_zip", "", << >>, 0))
             /\ pc' = "discover"
             /\ Running
        ELSE /\ Exit(1, "git archive failed")
             /\ UNCHANGED <<full_zip, stdout>>
    /\ UNCHANGED <<Repo, skills_dir, skill_zips, args_list, skills, built, runs>>
    /\ UNCHANGED NotBuild

\* main(), lines 214-216
Discover ==
    /\ pc = "discover"
    /\ \E git_ok \in BOOLEAN :
        IF git_ok
        THEN /\ skills' = discover_skills
             /\ stdout' = Append(stdout, Line("skills", "", << >>, Len(discover_skills)))
             /\ pc' = "skills"
             /\ Running
        ELSE /\ Exit(1, "git ls-files failed")
             /\ UNCHANGED <<skills, stdout>>
    /\ built' = 0
    /\ UNCHANGED <<Repo, Dist, args_list, runs>>
    /\ UNCHANGED NotBuild

\* build_skill for the next skill and main(), lines 218-220
build_skill ==
    /\ pc = "skills" /\ built < Len(skills)
    /\ LET skill_name == skills[built + 1] IN
       /\ dist_dir' = TRUE
       /\ skills_dir' = TRUE
       /\ \E git_ok \in BOOLEAN :
          IF ~git_ok
          THEN \* ls_files: sys.exit(1)
               /\ Exit(1, "git ls-files failed")
               /\ UNCHANGED <<skill_zips, stdout, built>>
          ELSE LET tracked == ls_files(skill_src_prefix(skill_name)) IN
               IF tracked = << >>
               THEN \* warning, the archive path is returned untouched
                    /\ UNCHANGED skill_zips
                    /\ IF format_size_ok(skill_zips[skill_name])
                       THEN /\ stdout' = stdout
                                \o << Line("warn_empty", skill_name, << >>, 0),
                                      Line("skill_zip", skill_name, << >>, 0) >>
                            /\ built' = built + 1
                            /\ UNCHANGED pc /\ Running
                       ELSE /\ stdout' = Append(stdout, Line("warn_empty", skill_name, << >>, 0))
                            /\ Exit(1, "FileNotFoundError")
                            /\ UNCHANGED built
               ELSE /\ skill_zips' = [skill_zips EXCEPT ![skill_name] =
                                        Archive(WrittenBeforeError(skill_name, tracked))]
                    /\ IF AllOnDisk(tracked)
                       THEN /\ stdout' = Append(stdout, Line("skill_zip", skill_name, << >>, 0))
                            /\ built' = built + 1
                            /\ UNCHANGED pc /\ Running
                       ELSE /\ Exit(1, "FileNotFoundError")
                            /\ UNCHANGED <<stdout, built>>
    /\ UNCHANGED <<Repo, full_zip, args_list, skills, runs>>
    /\ UNCHANGED NotBuild

\* main(), lines 222-234
Finish ==
    /\ pc = "skills" /\ built = Len(skills)
    /\ stdout' = Append(stdout, Line("install", "", << >>, 0))
    /\ Exit(0, "none")
    /\ UNCHANGED <<Repo, Dist, args_list, skills, built, runs>>
    /\ UNCHANGED NotBuild

\* the next invocation of build.py
Rerun ==
    /\ pc = "done" /\ runs < MaxRuns
    /\ runs' = runs + 1
    /\ args_list' \in BOOLEAN
    /\ pc' = "start"
    /\ skills' = << >>
    /\ built' = 0
    /\ stdout' = << >>
    /\ exit_code' = 0
    /\ error' = "none"
    /\ UNCHANGED <<Repo, Dist>>
    /\ UNCHANGED NotBuild

BuildStart ==
    /\ head \in { S \in SUBSET Paths : TreeOk(S) }
    /\ index = head
    /\ worktree = head
    /\ edits = 0
    /\ dist_dir = FALSE
    /\ skills_dir = FALSE
    /\ full_zip = NoArchive
    /\ skill_zips = [n \in SkillNames |-> NoArchive]
    /\ args_list \in BOOLEAN
    /\ pc = "start"
    /\ skills = << >>
    /\ built = 0
    /\ stdout = << >>
    /\ exit_code = 0
    /\ error = "none"
    /\ runs = 1

NextBuild ==
    \/ ParseArgs
    \/ GitCommit
    \/ GitAdd
    \/ GitRm
    \/ RmWorktree
    \/ ListAll
    \/ ListDiscover
    \/ ListSkill
    \/ WarnUncommitted
    \/ build_full
    \/ Discover
    \/ build_skill
    \/ Finish
    \/ Rerun


\* ------------------------------------------------------- setup.py: values

\* Python's None for a string-valued argument or variable
NONE == "None"

\* `not x` for a string or None
Falsy(x) == x \in {"", NONE}

\* What a step read. given: the arguments it looks at that were supplied;
\* answers: the text typed at each prompt it issued; detected: what its lookup
\* (fetch_github_repo_id) returned, NONE when it failed or was not made.
Inputs(given, answers, detected) ==
    [given |-> given, answers |-> answers, detected |-> detected]
NoInputs == Inputs({}, [x \in {} |-> x], NONE)

\* Ctrl-C and end of input at an input() prompt
CTRL_C == "^C"
EOF_INPUT == "^D"

\* Path.cwd(), and another project of the registry
PROJECT_DIR == "/proj"
OTHER_PROJECT == "/other"

Kinds == {"zenhub", "jira", "linear"}

API_TOKEN == "zh_token"

\* the lists the ZenHub API can return, longest first
WORKSPACES == << [id |-> "ws1", name |-> "Team 1"], [id |-> "ws2", name |-> "Team 2"],
                 [id |-> "ws3", name |-> "Team 3"], [id |-> "ws4", name |-> "Team 4"] >>
PIPELINES == << [id |-> "p1", name |-> "Backlog"], [id |-> "p2", name |-> "Sprint"],
                [id |-> "p3", name |-> "Review"], [id |-> "p4", name |-> "Done"] >>

NoFields == [x \in {} |-> x]

\* ---- the project config
NoConfig == [board_type |-> NONE, data |-> NoFields]
ConfigAbsent == [exists |-> FALSE, content |-> NoConfig]
OldConfig == [exists |-> TRUE,
              content |-> [board_type |-> "jira",
                           data |-> [jira_url |-> "https://old", project_key |-> "OLD",
                                     default_labels |-> << >>]]]

\* ---- MCP server descriptors
NoMcp == [command |-> NONE, workspace |-> NONE, api_token |-> NONE]
OtherMcp == [command |-> "node", workspace |-> NONE, api_token |-> NONE]
OldMcp == [command |-> "npx", workspace |-> "W_old", api_token |-> "zh_old"]

\* ---- ~/.claude.json: a file that may be absent or not parse; "projects" maps a
\* project path to an entry whose "mcpServers" maps a server name to a descriptor
RegistryAbsent ==
    [exists |-> FALSE, parses |-> FALSE, has_projects |-> FALSE, projects |-> NoFields,
     other |-> {}]
RegistryDoc(has_projects, projects) ==
    [exists |-> TRUE, parses |-> TRUE, has_projects |-> has_projects, projects |-> projects,
     other |-> {"numStartups"}]
ProjectEntry(has_mcpServers, mcpServers, rest) ==
    [has_mcpServers |-> has_mcpServers, mcpServers |-> mcpServers, rest |-> rest]

\* the entry update_claude_json creates for a project it does not find
NewProjectEntry == ProjectEntry(TRUE, NoFields, "defaults")

RegistryStates ==
    { RegistryAbsent,
      [RegistryDoc(TRUE, (OTHER_PROJECT :> ProjectEntry(TRUE, ("github" :> OtherMcp), "custom")))
          EXCEPT !.parses = FALSE],
      RegistryDoc(FALSE, NoFields),
      RegistryDoc(TRUE, (OTHER_PROJECT :> ProjectEntry(TRUE, ("github" :> OtherMcp), "custom"))),
      RegistryDoc(TRUE, (PROJECT_DIR :> ProjectEntry(FALSE, NoFields, "custom"))),
      \* this project registered by an earlier run, beside another server
      RegistryDoc(TRUE,
          (PROJECT_DIR :> ProjectEntry(TRUE, ("github" :> OtherMcp) @@ ("zenhub" :> OldMcp),
                                       "custom"))
          @@ (OTHER_PROJECT :> ProjectEntry(TRUE, ("github" :> OtherMcp), "custom"))) }

\* ---- ~/.claude/settings.json: "permissions" is missing, an object (with or
\* without "allow"), or a value of another type; `other` are the other settings
SettingsAbsent ==
    [exists |-> FALSE, parses |-> FALSE, perms |-> "missing", has_allow |-> FALSE,
     allow |-> << >>, other |-> {}]
SettingsDoc(perms, has_allow, allow, other) ==
    [exists |-> TRUE, parses |-> TRUE, perms |-> perms, has_allow |-> has_allow,
     allow |-> allow, other |-> other]

\* f"mcp__{board_type}__*"
wildcard(kind) ==
    CASE kind = "zenhub" -> "mcp__zenhub__*"
      [] kind = "jira" -> "mcp__jira__*"
      [] kind = "linear" -> "mcp__linear__*"

SettingsStates ==
    { SettingsAbsent,
      \* a file with entries that json.load rejects (a trailing comma, a comment)
      [SettingsDoc("object", TRUE, << "Bash(ls:*)" >>, {"model"}) EXCEPT !.parses = FALSE],
      SettingsDoc("missing", FALSE, << >>, {"model"}),
      SettingsDoc("object", FALSE, << >>, {"deny"}),
      SettingsDoc("object", TRUE, << "Bash(ls:*)" >>, {"model"}),
      SettingsDoc("object", TRUE, << "Bash(ls:*)", "mcp__zenhub__*" >>, {"model", "env"}),
      SettingsDoc("object", TRUE, << "mcp__zenhub__*", "mcp__zenhub__*" >>, {}),
      SettingsDoc("list", FALSE, << >>, {}) }

\* ---- <project>/.gitignore, as its lines
GITIGNORE_ENTRY == ".claude/agile-board-config.json"
GITIGNORE_COMMENT == "# Agile board config (project-specific)"

\* a line that holds the entry's text without being the entry: a pattern for
\* another file
GITIGNORE_LONGER == ".claude/agile-board-config.json.bak"

GitignoreAbsent == [exists |-> FALSE, lines |-> << >>]
GitignoreStates ==
    { GitignoreAbsent,
      [exists |-> TRUE, lines |-> << "node_modules/" >>],
      [exists |-> TRUE, lines |-> << "node_modules/", GITIGNORE_LONGER >>],
      [exists |-> TRUE, lines |-> << "node_modules/", "", GITIGNORE_COMMENT, GITIGNORE_ENTRY >>] }

\* The files the wizard starts from. Each update function reads only its own
\* file; the one coupling is an exception of update_claude_settings, which ends
\* the run before update_gitignore. So each of the three files varies beside the
\* usual state of the two others, the usual .gitignore being one the wizard
\* would append to.
UsualRegistry ==
    RegistryDoc(TRUE, (OTHER_PROJECT :> ProjectEntry(TRUE, ("github" :> OtherMcp), "custom")))
UsualSettings == SettingsDoc("object", TRUE, << "Bash(ls:*)" >>, {"model"})
UsualGitignore == [exists |-> TRUE, lines |-> << "node_modules/" >>]
HomeAndProject(registry, settings, gitignore) ==
    \/ registry = UsualRegistry /\ settings = UsualSettings
    \/ registry = UsualRegistry /\ gitignore = UsualGitignore
    \/ settings = UsualSettings /\ gitignore = UsualGitignore

\* ------------------------------------------------- setup.py: pure functions

\* input(...).strip().lower() of the overwrite prompt
strip_lower(answer) ==
    CASE answer = "Y" -> "y"
      [] answer = " y " -> "y"
      [] answer = "N" -> "n"
      [] OTHER -> answer

\* main(), lines 95-99
board_types == ("1" :> "zenhub") @@ ("2" :> "jira") @@ ("3" :> "linear")

\* str(k) for the small integers the prompts are answered with
Digits == << "1", "2", "3", "4", "5", "6", "7", "8", "9" >>
str(k) == IF k = 0 THEN "0" ELSE IF k > 0 THEN Digits[k] ELSE "-" \o Digits[-k]

\* int(text): ValueError unless the text is a numeral
ValueError(text) == \A k \in -9..9 : str(k) # text
int(text) == CHOOSE k \in -9..9 : str(k) = text

\* what the user types at a list of n numbered items
Choices(n) == { str(k) : k \in (-n - 1)..(n + 1) } \cup {"x", ""}

\* Python's seq[i] for an int i: a negative index counts from the end
IndexError(seq, i) == i >= Len(seq) \/ i < -Len(seq)
PyIndex(seq, i) == IF i >= 0 THEN seq[i + 1] ELSE seq[Len(seq) + i + 1]

\* fetch_github_repo_id, lines 157-175: the ID gh reports, None when gh fails
fetch_github_repo_id(gh_ok) == IF gh_ok THEN "R_auto" ELSE NONE

\* `x = a; if not x: x = b`
first_truthy_second(a, b) == b
first_truthy(a, b) == IF ~Falsy(a) THEN a ELSE b

\* fetch_zenhub_workspaces: None when curl or the JSON fails, else the nodes
fetch_zenhub_workspaces(ok, n) == IF ok THEN SubSeq(WORKSPACES, 1, n) ELSE << >>

\* fetch_workspace_pipelines: (None, None) on failure, else (pipelines, org id)
fetch_workspace_pipelines(ok, n, org) ==
    IF ok THEN << SubSeq(PIPELINES, 1, n), org >> ELSE << << >>, NONE >>

\* [l.strip() for l in labels_input.split(',') if l.strip()]
parse_labels(labels_input) ==
    CASE labels_input = "" -> << >>
      [] labels_input = "bug, ,ui" -> << "bug", "ui" >>

\* jira_url.rstrip('/')
rstrip_slash(url) == IF url = "https://jira/" THEN "https://jira" ELSE url

\* project_key.upper()
upper(key) == IF key = "proj" THEN "PROJ" ELSE key

\* setup_zenhub, lines 377-391
zenhub_mcp_config(ws) == [command |-> "npx", workspace |-> ws, api_token |-> API_TOKEN]

\* `if mcp_config:`
Truthy_always(mcp) == TRUE
Truthy(mcp) == mcp # NoMcp

\* ---- update_claude_json, lines 451-482: the document written back
registry_merged(f, project_path, kind, mcp) ==
    LET projects0 == IF f.has_projects THEN f.projects ELSE NoFields
        entry0 == IF project_path \in DOMAIN projects0
                  THEN projects0[project_path] ELSE NewProjectEntry
        servers0 == IF entry0.has_mcpServers THEN entry0.mcpServers ELSE NoFields
        entry1 == [entry0 EXCEPT !.has_mcpServers = TRUE,
                                 !.mcpServers = (kind :> mcp) @@ servers0]
    IN  [f EXCEPT !.has_projects = TRUE,
                  !.projects = (project_path :> entry1) @@ projects0]

\* the same for the project the wizard runs in
registry_replaced(f, kind, mcp) ==
    [f EXCEPT !.has_projects = TRUE,
              !.projects = (PROJECT_DIR :> ProjectEntry(TRUE, (kind :> mcp), "defaults"))]
registry_updated(f, kind, mcp) == registry_merged(f, PROJECT_DIR, kind, mcp)

\* ---- update_claude_settings, lines 496-516
\* json.load, or {} when the file is absent or cannot be read as JSON
settings_loaded(f) ==
    IF f.exists /\ f.parses THEN f ELSE SettingsDoc("missing", FALSE, << >>, {})

\* settings["permissions"]["allow"] = [] on a value that is no dict: TypeError
settings_raises(f) == settings_loaded(f).perms \notin {"missing", "object"}

\* the list after `if wildcard not in ...: append`
allow_appended(allow, kind) == Append(allow, wildcard(kind))
allow_updated(allow, kind) ==
    IF wildcard(kind) \in Range(allow) THEN allow ELSE Append(allow, wildcard(kind))

settings_updated(f, kind) ==
    LET s == settings_loaded(f)
        allow0 == IF s.perms = "object" /\ s.has_allow THEN s.allow ELSE << >>
    IN  SettingsDoc("object", TRUE, allow_updated(allow0, kind), s.other)

\* ---- update_gitignore, lines 535-546
\* `gitignore_entry in line`, for the lines of the model
contains_entry(line) == line \in {GITIGNORE_ENTRY, GITIGNORE_LONGER}

\* `gitignore_entry not in gitignore_content`, a substring test on the text
\* (the entry has no line break, so it is found within one line)
entry_in(lines) == \E i \in DOMAIN lines : contains_entry(lines[i])

gitignore_updated(f) ==
    IF f.exists /\ ~entry_in(f.lines)
    THEN [f EXCEPT !.lines = f.lines \o << "", GITIGNORE_COMMENT, GITIGNORE_ENTRY >>]
    ELSE f

\* ------------------------------------------------------ setup.py: main()

ZLocals == <<repository_id, workspace_id, workspaces, default_pipeline_id,
             default_pipeline_name, pipelines, organization_id>>

\* the locals of setup_zenhub before it runs and after it returned
ZLocalsCleared ==
    /\ repository_id' = NONE
    /\ workspace_id' = NONE
    /\ workspaces' = << >>
    /\ default_pipeline_id' = NONE
    /\ default_pipeline_name' = NONE
    /\ pipelines' = << >>
    /\ organization_id' = NONE

\* sys.exit(code), or an exception caught at lines 550-559
WExit_zero(code, why) ==
    /\ wpc' = "done"
    /\ wexit' = 0
    /\ werror' = why
WExit(code, why) ==
    /\ wpc' = "done"
    /\ wexit' = code
    /\ werror' = why

WGoto(next) ==
    /\ wpc' = next
    /\ UNCHANGED <<wexit, werror>>

\* `if overwrite != 'y'`, with every answer but y kept as a refusal
cancelled_never(answer) == FALSE
cancelled(answer) == answer # "y"

\* main(), lines 64-78: an existing config is overwritten with --force or after "y"
CheckExisting ==
    /\ wpc = "start"
    /\ IF ~config_file.exists \/ args_force
       THEN /\ WGoto("board")
            /\ inputs' = Inputs({a \in {"force"} : args_force}, NoFields, NONE)
            /\ UNCHANGED overwrite
       ELSE \E answer \in {"y", "Y", "n", "", "yes", EOF_INPUT, CTRL_C} :
            /\ inputs' = Inputs({}, ("overwrite" :> answer), NONE)
            /\ CASE answer = EOF_INPUT ->
                    WExit(1, "Config exists and no --force flag provided") /\ UNCHANGED overwrite
                 [] answer = CTRL_C ->
                    WExit(1, "KeyboardInterrupt") /\ UNCHANGED overwrite
                 [] OTHER ->
                    /\ overwrite' = strip_lower(answer)
                    /\ IF cancelled(strip_lower(answer))
                       THEN WExit(0, "Setup cancelled")
                       ELSE WGoto("board")
    /\ UNCHANGED <<fvars, args_force, board_type, ZLocals, config, mcp_config>>
    /\ choice' = NONE
    /\ UNCHANGED NotSetup

\* which setup_* function main() calls, lines 113-124
SetupOf(kind) ==
    CASE kind = "zenhub" -> "z_token"
      [] kind = "jira" -> "jira"
      [] kind = "linear" -> "linear"

\* main(), lines 80-107: --board-type, or the numbered choice 1-3
ChooseBoard ==
    /\ wpc = "board"
    /\ \E arg \in Kinds \cup {NONE} :
        IF ~Falsy(arg)
        THEN /\ board_type' = arg
             /\ WGoto(SetupOf(arg))
             /\ choice' = NONE
             /\ inputs' = Inputs({"board_type"}, NoFields, NONE)
        ELSE \E board_choice \in Choices(3) \cup {CTRL_C} :
             /\ inputs' = Inputs({}, ("board_type" :> board_choice), NONE)
             /\ IF board_choice = CTRL_C
                THEN WExit(1, "KeyboardInterrupt") /\ choice' = NONE /\ UNCHANGED board_type
                ELSE /\ choice' = board_choice
                     /\ IF board_choice \notin DOMAIN board_types
                        THEN WExit(1, "Invalid choice") /\ UNCHANGED board_type
                        ELSE /\ board_type' = board_types[board_choice]
                             /\ WGoto(SetupOf(board_types[board_choice]))
    /\ UNCHANGED <<fvars, args_force, overwrite, ZLocals, config, mcp_config>>
    /\ UNCHANGED NotSetup

\* setup_zenhub, lines 246-256: the API token, from --api-token or typed
ZToken ==
    /\ wpc = "z_token"
    /\ \E arg \in {NONE, API_TOKEN} :
        IF ~Falsy(arg)
        THEN WGoto("z_repo") /\ inputs' = Inputs({"api_token"}, NoFields, NONE)
        ELSE \E typed \in {API_TOKEN, CTRL_C} :
             /\ inputs' = Inputs({}, ("api_token" :> typed), NONE)
             /\ IF typed = CTRL_C THEN WExit(1, "KeyboardInterrupt") ELSE WGoto("z_repo")
    /\ UNCHANGED <<fvars, args_force, overwrite, board_type, ZLocals, config, mcp_config>>
    /\ choice' = NONE
    /\ UNCHANGED NotSetup

\* setup_zenhub, lines 258-267: --repository-id, else fetch_github_repo_id(), else typed
ZRepository ==
    /\ wpc = "z_repo"
    /\ \E arg \in {NONE, "R_arg"}, gh_ok \in BOOLEAN :
        LET detected == IF Falsy(arg) THEN fetch_github_repo_id(gh_ok) ELSE NONE
            found == first_truthy(arg, detected)
            given == {a \in {"repository_id"} : ~Falsy(arg)}
        IN  IF ~Falsy(found)
            THEN /\ repository_id' = found
                 /\ WGoto("z_workspace")
                 /\ inputs' = Inputs(given, NoFields, detected)
            ELSE \E typed \in {"R_typed", CTRL_C} :
                 /\ inputs' = Inputs(given, ("repository_id" :> typed), detected)
                 /\ IF typed = CTRL_C
                    THEN WExit(1, "KeyboardInterrupt") /\ UNCHANGED repository_id
                    ELSE repository_id' = typed /\ WGoto("z_workspace")
    /\ UNCHANGED <<fvars, args_force, overwrite, board_type, workspace_id, workspaces,
                   default_pipeline_id, default_pipeline_name, pipelines, organization_id,
                   config, mcp_config>>
    /\ choice' = NONE
    /\ UNCHANGED NotSetup

\* the prompt "Workspace ID: ", lines 284 and 310
TypedWorkspaceId(typed) ==
    IF typed = CTRL_C
    THEN WExit(1, "KeyboardInterrupt") /\ UNCHANGED workspace_id
    ELSE workspace_id' = typed /\ WGoto("z_pipeline")

\* setup_zenhub, lines 269-279 and 307-312: --workspace-id, else the search by name
ZWorkspaceSearch ==
    /\ wpc = "z_workspace"
    /\ \E arg \in {NONE, "W_arg"} :
        IF ~Falsy(arg)
        THEN /\ workspace_id' = arg
             /\ WGoto("z_pipeline")
             /\ inputs' = Inputs({"workspace_id"}, NoFields, NONE)
             /\ UNCHANGED workspaces
        ELSE \E workspace_name \in {"", "team", CTRL_C} :
             CASE workspace_name = CTRL_C ->
                    /\ WExit(1, "KeyboardInterrupt") /\ UNCHANGED <<workspace_id, workspaces>>
                    /\ inputs' = Inputs({}, ("workspace_name" :> workspace_name), NONE)
               [] workspace_name = "" ->
                    /\ \E typed \in {"W_typed", CTRL_C} :
                        /\ TypedWorkspaceId(typed)
                        /\ inputs' = Inputs({}, ("workspace_name" :> workspace_name)
                                                    @@ ("workspace_id" :> typed), NONE)
                    /\ UNCHANGED workspaces
               [] OTHER ->
                    \E ok \in BOOLEAN, n \in 0..MaxItems :
                        /\ ok \/ n = 0
                        /\ workspaces' = fetch_zenhub_workspaces(ok, n)
                        /\ WGoto("z_select")
                        /\ inputs' = Inputs({}, ("workspace_name" :> workspace_name), NONE)
                        /\ UNCHANGED workspace_id
    /\ UNCHANGED <<fvars, args_force, overwrite, board_type, repository_id,
                   default_pipeline_id, default_pipeline_name, pipelines, organization_id,
                   config, mcp_config>>
    /\ choice' = NONE
    /\ UNCHANGED NotSetup

\* setup_zenhub, lines 281-306: nothing found, the only match, or the numbered choice
ZWorkspaceSelect ==
    /\ wpc = "z_select"
    /\ IF workspaces = << >>
       THEN /\ \E typed \in {"W_typed", CTRL_C} :
                /\ TypedWorkspaceId(typed)
                /\ inputs' = Inputs({}, ("workspace_id" :> typed), NONE)
            /\ choice' = NONE
       ELSE IF Len(workspaces) = 1
       THEN /\ workspace_id' = workspaces[1].id /\ WGoto("z_pipeline") /\ choice' = NONE
            /\ inputs' = NoInputs
       ELSE \E answer \in Choices(Len(workspaces)) \cup {CTRL_C} :
            /\ inputs' = Inputs({}, ("workspace_choice" :> answer), NONE)
            /\ IF answer = CTRL_C
               THEN WExit(1, "KeyboardInterrupt") /\ choice' = NONE /\ UNCHANGED workspace_id
               ELSE /\ choice' = answer
                    /\ IF ValueError(answer) \/ IndexError(workspaces, int(answer) - 1)
                       THEN WExit(1, "Invalid choice") /\ UNCHANGED workspace_id
                       ELSE /\ workspace_id' = PyIndex(workspaces, int(answer) - 1).id
                            /\ WGoto("z_pipeline")
    /\ workspaces' = << >>
    /\ UNCHANGED <<fvars, args_force, overwrite, board_type, repository_id,
                   default_pipeline_id, default_pipeline_name, pipelines, organization_id,
                   config, mcp_config>>
    /\ UNCHANGED NotSetup

\* setup_zenhub, lines 316-327 and 349-350: the pipeline and organization arguments,
\* and the fetch when one of them is missing
ZPipelineFetch ==
    /\ wpc = "z_pipeline"
    /\ \E id_arg \in {NONE, "P_arg"}, name_arg \in {NONE, "N_arg"}, org_arg \in {NONE, "O_arg"} :
        LET given == {a \in {"default_pipeline_id"} : ~Falsy(id_arg)}
                     \cup {a \in {"default_pipeline_name"} : ~Falsy(name_arg)}
                     \cup {a \in {"organization_id"} : ~Falsy(org_arg)}
        IN
        /\ default_pipeline_id' = id_arg
        /\ default_pipeline_name' = name_arg
        /\ IF Falsy(id_arg) \/ Falsy(org_arg)
           THEN \E ok \in BOOLEAN, n \in 0..MaxItems, org \in {NONE, "O_api"} :
                LET fetched == fetch_workspace_pipelines(ok, n, org) IN
                /\ ok \/ (n = 0 /\ org = NONE)
                /\ pipelines' = fetched[1]
                /\ organization_id' = IF ~Falsy(fetched[2]) /\ Falsy(org_arg)
                                      THEN fetched[2] ELSE org_arg
                /\ inputs' = Inputs(given, NoFields, fetched[2])
                /\ WGoto("z_pipe_select")
           ELSE /\ organization_id' = org_arg
                /\ WGoto("z_org")
                /\ inputs' = Inputs(given, NoFields, NONE)
                /\ UNCHANGED pipelines
    /\ UNCHANGED <<fvars, args_force, overwrite, board_type, repository_id, workspace_id,
                   workspaces, config, mcp_config>>
    /\ choice' = NONE
    /\ UNCHANGED NotSetup

\* setup_zenhub, lines 329-348: typed pipeline, or the numbered choice
ZPipelineSelect ==
    /\ wpc = "z_pipe_select"
    /\ IF pipelines = << >> /\ Falsy(default_pipeline_id)
       THEN \E typed \in {"P_typed", CTRL_C}, typed_name \in {"N_typed", CTRL_C} :
            /\ choice' = NONE
            /\ IF typed = CTRL_C
               THEN /\ typed_name = CTRL_C
                    /\ inputs' = Inputs({}, ("default_pipeline_id" :> typed), NONE)
                    /\ WExit(1, "KeyboardInterrupt")
                    /\ UNCHANGED <<default_pipeline_id, default_pipeline_name>>
               ELSE /\ inputs' = Inputs({}, ("default_pipeline_id" :> typed)
                                            @@ ("default_pipeline_name" :> typed_name), NONE)
                    /\ IF typed_name = CTRL_C
                       THEN /\ WExit(1, "KeyboardInterrupt")
                            /\ UNCHANGED <<default_pipeline_id, default_pipeline_name>>
                       ELSE /\ default_pipeline_id' = typed
                            /\ default_pipeline_name' = typed_name
                            /\ WGoto("z_org")
       ELSE IF pipelines # << >> /\ Falsy(default_pipeline_id)
       THEN \E answer \in Choices(Len(pipelines)) \cup {CTRL_C} :
            /\ inputs' = Inputs({}, ("pipeline_choice" :> answer), NONE)
            /\ IF answer = CTRL_C
               THEN /\ WExit(1, "KeyboardInterrupt")
                    /\ choice' = NONE
                    /\ UNCHANGED <<default_pipeline_id, default_pipeline_name>>
               ELSE /\ choice' = answer
                    /\ IF ValueError(answer) \/ IndexError(pipelines, int(answer) - 1)
                       THEN /\ WExit(1, "Invalid choice")
                            /\ UNCHANGED <<default_pipeline_id, default_pipeline_name>>
                       ELSE /\ default_pipeline_id' = PyIndex(pipelines, int(answer) - 1).id
                            /\ default_pipeline_name' = PyIndex(pipelines, int(answer) - 1).name
                            /\ WGoto("z_org")
       ELSE /\ WGoto("z_org")
            /\ choice' = NONE
            /\ inputs' = NoInputs
            /\ UNCHANGED <<default_pipeline_id, default_pipeline_name>>
    /\ pipelines' = << >>
    /\ UNCHANGED <<fvars, args_force, overwrite, board_type, repository_id, workspace_id,
                   workspaces, organization_id, config, mcp_config>>
    /\ UNCHANGED NotSetup

\* setup_zenhub, lines 352-360: no organization ID yet. args.organization_id is empty
\* here (it would have been taken at line 319), so line 353 never holds
ZOrganization ==
    /\ wpc = "z_org"
    /\ IF ~Falsy(organization_id)
       THEN WGoto("z_labels") /\ inputs' = NoInputs /\ UNCHANGED organization_id
       ELSE IF args_force
       THEN /\ WExit(1, "Organization ID is required in non-interactive mode")
            /\ inputs' = Inputs({"force"}, NoFields, NONE)
            /\ UNCHANGED organization_id
       ELSE \E typed \in {"O_typed", CTRL_C} :
            /\ inputs' = Inputs({}, ("organization_id" :> typed), NONE)
            /\ IF typed = CTRL_C
               THEN WExit(1, "KeyboardInterrupt") /\ UNCHANGED organization_id
               ELSE organization_id' = typed /\ WGoto("z_labels")
    /\ UNCHANGED <<fvars, args_force, overwrite, board_type, repository_id, workspace_id,
                   workspaces, default_pipeline_id, default_pipeline_name, pipelines,
                   config, mcp_config>>
    /\ choice' = NONE
    /\ UNCHANGED NotSetup

\* what setup_zenhub returns, lines 393-400, merged into config at lines 110-116
ZenhubConfig(default_labels) ==
    [board_type |-> board_type,
     data |-> [workspace_id |-> workspace_id,
               repository_id |-> repository_id,
               organization_id |-> organization_id,
               default_pipeline_id |-> default_pipeline_id,
               default_pipeline_name |-> default_pipeline_name,
               default_labels |-> default_labels]]

\* setup_zenhub, lines 364-400, and main(), lines 114-116: the labels, then the return
ZLabels ==
    /\ wpc = "z_labels"
    /\ \E arg \in {NONE, "bug, ,ui"} :
        IF ~Falsy(arg) \/ args_force
        THEN /\ config' = ZenhubConfig(parse_labels(IF ~Falsy(arg) THEN arg ELSE ""))
             /\ mcp_config' = zenhub_mcp_config(workspace_id)
             /\ inputs' = Inputs(IF ~Falsy(arg) THEN {"default_labels"} ELSE {"force"},
                                 NoFields, NONE)
             /\ ZLocalsCleared
             /\ WGoto("write_config")
        ELSE \E typed \in {"", CTRL_C} :
             /\ inputs' = Inputs({}, ("default_labels" :> typed), NONE)
             /\ IF typed = CTRL_C
                THEN WExit(1, "KeyboardInterrupt") /\ UNCHANGED <<ZLocals, config, mcp_config>>
                ELSE /\ config' = ZenhubConfig(parse_labels(typed))
                     /\ mcp_config' = zenhub_mcp_config(workspace_id)
                     /\ ZLocalsCleared
                     /\ WGoto("write_config")
    /\ UNCHANGED <<fvars, args_force, overwrite, board_type>>
    /\ choice' = NONE
    /\ UNCHANGED NotSetup

\* setup_jira, lines 403-421, and main(), lines 118-120
setup_jira ==
    /\ wpc = "jira"
    /\ \E url_arg \in {NONE, "https://jira/"}, key_arg \in {NONE, "proj"} :
       \E url_typed \in {"https://jira", CTRL_C}, key_typed \in {"KEY", CTRL_C} :
        /\ ~Falsy(url_arg) => url_typed = "https://jira"
        /\ ~Falsy(key_arg) \/ url_typed = CTRL_C => key_typed = "KEY"
        /\ inputs' =
            Inputs({a \in {"jira_url"} : ~Falsy(url_arg)} \cup {a \in {"project_key"} : ~Falsy(key_arg)},
                   (IF Falsy(url_arg) THEN ("jira_url" :> url_typed) ELSE NoFields)
                   @@ (IF Falsy(key_arg) /\ ~(Falsy(url_arg) /\ url_typed = CTRL_C)
                       THEN ("project_key" :> key_typed) ELSE NoFields),
                   NONE)
        /\ IF (Falsy(url_arg) /\ url_typed = CTRL_C) \/ (Falsy(key_arg) /\ key_typed = CTRL_C)
           THEN WExit(1, "KeyboardInterrupt") /\ UNCHANGED <<config, mcp_config>>
           ELSE /\ config' =
                    [board_type |-> board_type,
                     data |-> [jira_url |-> rstrip_slash(IF ~Falsy(url_arg) THEN url_arg
                                                         ELSE url_typed),
                               project_key |-> upper(IF ~Falsy(key_arg) THEN key_arg
                                                     ELSE key_typed),
                               default_labels |-> << >>]]
                /\ mcp_config' = NoMcp
                /\ WGoto("write_config")
    /\ UNCHANGED <<fvars, args_force, overwrite, board_type, ZLocals>>
    /\ choice' = NONE
    /\ UNCHANGED NotSetup

\* setup_linear, lines 424-440, and main(), lines 121-124
setup_linear ==
    /\ wpc = "linear"
    /\ \E team_arg \in {NONE, "T_arg"}, ws_arg \in {NONE, "LW_arg"} :
       \E team_typed \in {"T_typed", CTRL_C}, ws_typed \in {"LW_typed", CTRL_C} :
        /\ ~Falsy(team_arg) => team_typed = "T_typed"
        /\ ~Falsy(ws_arg) \/ team_typed = CTRL_C => ws_typed = "LW_typed"
        /\ inputs' =
            Inputs({a \in {"team_id"} : ~Falsy(team_arg)} \cup {a \in {"linear_workspace_id"} : ~Falsy(ws_arg)},
                   (IF Falsy(team_arg) THEN ("team_id" :> team_typed) ELSE NoFields)
                   @@ (IF Falsy(ws_arg) /\ ~(Falsy(team_arg) /\ team_typed = CTRL_C)
                       THEN ("linear_workspace_id" :> ws_typed) ELSE NoFields),
                   NONE)
        /\ IF (Falsy(team_arg) /\ team_typed = CTRL_C) \/ (Falsy(ws_arg) /\ ws_typed = CTRL_C)
           THEN WExit(1, "KeyboardInterrupt") /\ UNCHANGED <<config, mcp_config>>
           ELSE /\ config' =
                    [board_type |-> board_type,
                     data |-> [team_id |-> IF ~Falsy(team_arg) THEN team_arg ELSE team_typed,
                               workspace_id |-> IF ~Falsy(ws_arg) THEN ws_arg ELSE ws_typed,
                               default_labels |-> << >>]]
                /\ mcp_config' = NoMcp
                /\ WGoto("write_config")
    /\ UNCHANGED <<fvars, args_force, overwrite, board_type, ZLocals>>
    /\ choice' = NONE
    /\ UNCHANGED NotSetup

\* main(), lines 126-130
WriteConfig ==
    /\ wpc = "write_config"
    /\ config_file' = [exists |-> TRUE, content |-> config]
    /\ WGoto("claude_json")
    /\ UNCHANGED <<claude_json, settings_file, gitignore_file, args_force, overwrite,
                   board_type, ZLocals, config, mcp_config>>
    /\ choice' = NONE
    /\ inputs' = NoInputs
    /\ UNCHANGED NotSetup

\* main(), lines 132-134, and update_claude_json: skipped without a descriptor or
\* a registry file; a file that does not parse, or cannot be written, is reported
\* (lines 484-486) and left as it is
update_claude_json ==
    /\ wpc = "claude_json"
    /\ IF Truthy(mcp_config) /\ claude_json.exists
       THEN \E written \in BOOLEAN :
            /\ written => claude_json.parses
            /\ claude_json' = IF written
                              THEN registry_updated(claude_json, board_type, mcp_config)
                              ELSE claude_json
            /\ werror' = IF written THEN werror ELSE "Error updating .claude.json"
       ELSE UNCHANGED <<claude_json, werror>>
    /\ wpc' = "settings"
    /\ UNCHANGED wexit
    /\ UNCHANGED <<config_file, settings_file, gitignore_file, args_force, overwrite,
                   board_type, ZLocals, config, mcp_config>>
    /\ choice' = NONE
    /\ inputs' = NoInputs
    /\ UNCHANGED NotSetup

\* main(), lines 136-138, and update_claude_settings: the write may fail (reported,
\* the run goes on); a "permissions" value that is no object raises TypeError
update_claude_settings ==
    /\ wpc = "settings"
    /\ IF ~Truthy(mcp_config)
       THEN WGoto("gitignore") /\ UNCHANGED settings_file
       ELSE IF settings_raises(settings_file)
       THEN WExit(1, "TypeError") /\ UNCHANGED settings_file
       ELSE \E written \in BOOLEAN :
            /\ settings_file' = IF written THEN settings_updated(settings_file, board_type)
                                ELSE settings_file
            /\ wpc' = "gitignore"
            /\ werror' = IF written THEN werror ELSE "Error writing settings.json"
            /\ UNCHANGED wexit
    /\ UNCHANGED <<config_file, claude_json, gitignore_file, args_force, overwrite,
                   board_type, ZLocals, config, mcp_config>>
    /\ choice' = NONE
    /\ inputs' = NoInputs
    /\ UNCHANGED NotSetup

\* main(), lines 140-154, and update_gitignore
update_gitignore ==
    /\ wpc = "gitignore"
    /\ gitignore_file' = gitignore_updated(gitignore_file)
    /\ wpc' = "done"
    /\ wexit' = 0
    /\ UNCHANGED werror
    /\ UNCHANGED <<config_file, claude_json, settings_file, args_force, overwrite,
                   board_type, ZLocals, config, mcp_config>>
    /\ choice' = NONE
    /\ inputs' = NoInputs
    /\ UNCHANGED NotSetup

\* ------------------------------------- setup.py: two invocations at once
\* Two runs of the wizard in different projects, each in its write phase:
\* update_claude_json loads the registry (lines 451-453) and writes it later
\* (lines 481-482), update_claude_settings likewise (lines 496-505, 522-525),
\* and nothing keeps the other run from acting in between.

Procs == {1, 2}
SECOND_PROJECT == "/proj2"
ProjectOf(p) == IF p = 1 THEN PROJECT_DIR ELSE SECOND_PROJECT

\* what setup_* returned to each run: a descriptor for zenhub, None otherwise
McpOf(p) ==
    IF rkind[p] = "zenhub"
    THEN zenhub_mcp_config(IF p = 1 THEN "ws1" ELSE "ws2")
    ELSE NoMcp

NoData == [exists |-> FALSE]
Event(p, op, file) == [proc |-> p, op |-> op, file |-> file]

\* the document an update function merges into: the one it loaded
merge_base_current(loaded, current) == current
merge_base(loaded, current) == loaded

RaceGoto(p, next) == rpc' = [rpc EXCEPT ![p] = next]

\* update_claude_json up to json.load (the test for the file is the read of an
\* absent one); a run without descriptor skips both updates
JsonLoad(p) ==
    /\ rpc[p] = "json"
    /\ IF ~Truthy(McpOf(p))
       THEN RaceGoto(p, "done") /\ UNCHANGED <<rdata, rlog>>
       ELSE /\ rlog' = Append(rlog, Event(p, "read", "registry"))
            /\ IF claude_json.exists /\ claude_json.parses
               THEN /\ rdata' = [rdata EXCEPT ![p] = claude_json]
                    /\ RaceGoto(p, "json_write")
               ELSE RaceGoto(p, "settings") /\ UNCHANGED rdata
    /\ UNCHANGED <<claude_json, settings_file, rkind, rstart>>
    /\ UNCHANGED NotRace

\* update_claude_json, lines 455-482: merge into what was loaded, write it
JsonDump(p) ==
    /\ rpc[p] = "json_write"
    /\ claude_json' = registry_merged(merge_base(rdata[p], claude_json),
                                      ProjectOf(p), rkind[p], McpOf(p))
    /\ rdata' = [rdata EXCEPT ![p] = NoData]
    /\ rlog' = Append(rlog, Event(p, "write", "registry"))
    /\ RaceGoto(p, "settings")
    /\ UNCHANGED <<settings_file, rkind, rstart>>
    /\ UNCHANGED NotRace

\* update_claude_settings, lines 496-511: load, or {} for an absent file;
\* TypeError ends the run
SettingsLoad(p) ==
    /\ rpc[p] = "settings"
    /\ rlog' = Append(rlog, Event(p, "read", "settings"))
    /\ IF settings_raises(settings_file)
       THEN RaceGoto(p, "done") /\ UNCHANGED rdata
       ELSE /\ rdata' = [rdata EXCEPT ![p] = settings_file]
            /\ RaceGoto(p, "settings_write")
    /\ UNCHANGED <<claude_json, settings_file, rkind, rstart>>
    /\ UNCHANGED NotRace

\* update_claude_settings, lines 513-525: append the wildcard if missing, write
SettingsDump(p) ==
    /\ rpc[p] = "settings_write"
    /\ settings_file' = settings_updated(merge_base(rdata[p], settings_file), rkind[p])
    /\ rdata' = [rdata EXCEPT ![p] = NoData]
    /\ rlog' = Append(rlog, Event(p, "write", "settings"))
    /\ RaceGoto(p, "done")
    /\ UNCHANGED <<claude_json, rkind, rstart>>
    /\ UNCHANGED NotRace

\* no second invocation: the variables of the race in the other specifications
RaceIdle ==
    /\ rkind = [p \in Procs |-> NONE]
    /\ rpc = [p \in Procs |-> "done"]
    /\ rdata = [p \in Procs |-> NoData]
    /\ rlog = << >>
    /\ rstart = [registry |-> RegistryAbsent, settings |-> SettingsAbsent]

RaceStart ==
    /\ rkind \in [Procs -> {"zenhub", "jira"}]
    /\ rpc = [p \in Procs |-> "json"]
    /\ rdata = [p \in Procs |-> NoData]
    /\ rlog = << >>
    /\ claude_json \in {RegistryAbsent, RegistryDoc(FALSE, NoFields), UsualRegistry}
    /\ settings_file \in {SettingsAbsent, UsualSettings,
                          SettingsDoc("object", TRUE, << "mcp__zenhub__*" >>, {})}
    /\ rstart = [registry |-> claude_json, settings |-> settings_file]

NextRace ==
    \E p \in Procs :
        \/ JsonLoad(p)
        \/ JsonDump(p)
        \/ SettingsLoad(p)
        \/ SettingsDump(p)

\* --------------------------------------------------- convert-docs-to-md.py

MaxDocs == 2        \* files in the folder
MaxRows == 2        \* rows of a sheet, the header included

\* DocumentConverter.SUPPORTED_FORMATS, lines 41-53
SUPPORTED_FORMATS == {".docx", ".doc", ".pdf", ".xlsx", ".xls", ".pptx", ".ppt",
                      ".odt", ".rtf", ".html", ".htm"}

Doc(stem, ext, exists) == [stem |-> stem, ext |-> ext, exists |-> exists]
\* the files a run may meet: one per branch of convert_file, two sharing a stem
DocKinds == { Doc("a", ".docx", TRUE), Doc("a", ".pdf", TRUE), Doc("b", ".xlsx", TRUE),
              Doc("b", ".pptx", TRUE), Doc("b", ".txt", TRUE) }

\* ---- spreadsheet cells as openpyxl returns them: None, a number, a string
Cell(type, repr) == [type |-> type, repr |-> repr]
NoneCell == Cell("NoneType", "None")
ZeroCell == Cell("int", "0")
TextCell == Cell("str", "x")
Cells == {NoneCell, ZeroCell, TextCell}

\* bool(cell), as `any(cell for cell in row)` and `cell or ""` test it
cell_truthy(cell) ==
    CASE cell.type = "NoneType" -> FALSE
      [] cell.type = "int" -> cell.repr # "0"
      [] OTHER -> cell.repr # ""

\* str(cell or "")
cell_text(cell) == IF cell_truthy(cell) THEN cell.repr ELSE ""

Rows == { <<c1, c2>> : c1 \in Cells, c2 \in Cells }
RowSeqs == UNION { [1..n -> Rows] : n \in 0..MaxRows }
Sheet(name, data) == [name |-> name, data |-> data]
UsualSheet == Sheet("S2", << <<TextCell, TextCell>>, <<TextCell, NoneCell>> >>)
UsualWorkbook == << Sheet("S1", << <<TextCell, TextCell>> >>), UsualSheet >>
Workbooks == { << Sheet("S1", data) >> : data \in RowSeqs }
                \cup { << Sheet("S1", data), UsualSheet >> : data \in RowSeqs }

\* ---- the lines _convert_excel writes
MdLine(kind, text, cells) == [kind |-> kind, text |-> text, cells |-> cells]
TableRow(row) == MdLine("row", "", [i \in DOMAIN row |-> cell_text(row[i])])
Separator(header) == MdLine("separator", "", [i \in DOMAIN header |-> "---"])

RECURSIVE data_rows(_)
data_rows(rows) ==
    IF rows = << >> THEN << >>
    ELSE (IF \E i \in DOMAIN Head(rows) : cell_truthy(Head(rows)[i])
          THEN << TableRow(Head(rows)) >> ELSE << >>)
         \o data_rows(Tail(rows))

\* lines 235-254, one sheet: its heading, then the table or "*Empty sheet*"
sheet_markdown(sheet) ==
    << MdLine("h2", sheet.name, << >>) >>
    \o (IF sheet.data = << >>
        THEN << MdLine("empty_sheet", "", << >>) >>
        ELSE << TableRow(Head(sheet.data)), Separator(Head(sheet.data)) >>
             \o data_rows(Tail(sheet.data))
             \o << MdLine("blank", "", << >>) >>)

RECURSIVE sheets_markdown(_)
sheets_markdown(wb) ==
    IF wb = << >> THEN << >>
    ELSE sheet_markdown(Head(wb)) \o sheets_markdown(Tail(wb))

\* lines 229-254: the title lines, then every sheet
excel_markdown(stem, wb) ==
    << MdLine("h1", stem, << >>), MdLine("note", "Converted from Excel", << >>),
       MdLine("rule", "", << >>) >> \o sheets_markdown(wb)

\* ---- the .md files
AbsentMd == [exists |-> FALSE, by |-> NONE, of |-> NONE, body |-> << >>]
OldMd == [exists |-> TRUE, by |-> "earlier", of |-> NONE, body |-> << >>]
Md(by, doc, body) == [exists |-> TRUE, by |-> by, of |-> doc.stem \o doc.ext, body |-> body]

Invocation(converter, doc) == [converter |-> converter, doc |-> doc]
\* what one conversion returns and does
Outcome(ok, calls, md) == [ok |-> ok, calls |-> calls, md |-> md]

\* _convert_with_pandoc, lines 137-169
convert_with_pandoc(doc, old, ran) ==
    IF ~tools.pandoc
    THEN Outcome(FALSE, << >>, old)
    ELSE IF ran
    THEN Outcome(TRUE, << Invocation("pandoc", doc) >>, Md("pandoc", doc, << >>))
    ELSE Outcome(FALSE, << Invocation("pandoc", doc) >>, old)

\* _convert_pdf, lines 171-213
convert_pdf(doc, old, ran) ==
    IF tools.pandoc
    THEN convert_with_pandoc(doc, old, ran)
    ELSE IF ~tools.pdftotext
    THEN Outcome(FALSE, << >>, old)
    ELSE IF ran
    THEN Outcome(TRUE, << Invocation("pdftotext", doc) >>, Md("pdftotext", doc, << >>))
    ELSE Outcome(FALSE, << Invocation("pdftotext", doc) >>, old)

\* _convert_excel, lines 215-261: openpyxl whether or not pandoc is there; a
\* workbook that does not load fails before the target is opened
convert_excel_after_pandoc(doc, old, ran) ==
    IF tools.pandoc
    THEN convert_with_pandoc(doc, old, ran)
    ELSE IF ~tools.openpyxl
    THEN Outcome(FALSE, << >>, old)
    ELSE IF ran
    THEN Outcome(TRUE, << Invocation("openpyxl", doc) >>,
                 Md("openpyxl", doc, excel_markdown(doc.stem, workbook)))
    ELSE Outcome(FALSE, << Invocation("openpyxl", doc) >>, old)
convert_excel(doc, old, ran) ==
    IF ~tools.openpyxl
    THEN Outcome(FALSE, << >>, old)
    ELSE IF ran
    THEN Outcome(TRUE, << Invocation("openpyxl", doc) >>,
                 Md("openpyxl", doc, excel_markdown(doc.stem, workbook)))
    ELSE Outcome(FALSE, << Invocation("openpyxl", doc) >>, old)

\* _convert_powerpoint, lines 263-302
convert_powerpoint(doc, old, ran) ==
    IF tools.pandoc
    THEN convert_with_pandoc(doc, old, ran)
    ELSE IF ~tools.pptx
    THEN Outcome(FALSE, << >>, old)
    ELSE IF ran
    THEN Outcome(TRUE, << Invocation("python-pptx", doc) >>, Md("python-pptx", doc, << >>))
    ELSE Outcome(FALSE, << Invocation("python-pptx", doc) >>, old)

\* __init__, line 57, and main(), line 414: kept on the converter, read nowhere
keep_original == ~cargs.delete_original

\* `if output_file.exists() and not self.overwrite`
skipped_never(old) == FALSE
skipped(old) == old.exists /\ ~cargs.overwrite

\* convert_file, lines 99-136; ran: whether the converter invoked succeeds
convert_file(doc, old, ran) ==
    IF ~doc.exists THEN Outcome(FALSE, << >>, old)
    ELSE IF doc.ext \notin SUPPORTED_FORMATS THEN Outcome(FALSE, << >>, old)
    ELSE IF skipped(old) THEN Outcome(TRUE, << >>, old)
    ELSE CASE doc.ext \in {".docx", ".doc", ".odt", ".rtf", ".html", ".htm"} ->
                convert_with_pandoc(doc, old, ran)
           [] doc.ext = ".pdf" -> convert_pdf(doc, old, ran)
           [] doc.ext \in {".xlsx", ".xls"} -> convert_excel(doc, old, ran)
           [] doc.ext \in {".pptx", ".ppt"} -> convert_powerpoint(doc, old, ran)
           [] OTHER -> Outcome(FALSE, << >>, old)

\* exit status of main() from what it counted
exit_status_zero(failed) == 0
exit_status(failed) == IF failed THEN 1 ELSE 0

\* what convert_file does to the state
Apply(doc, result) ==
    /\ targets' = [targets EXCEPT ![doc.stem] = result.md]
    /\ invoked' = invoked \o result.calls

\* main(), lines 420-424: single-file mode
ConvertSingle ==
    /\ cpc = "main"
    /\ cargs.mode = "file"
    /\ \E ran \in BOOLEAN :
        LET doc == docs[1]
            result == convert_file(doc, targets[doc.stem], ran)
        IN  /\ Apply(doc, result)
            /\ cexit' = exit_status(~result.ok)
    /\ cpc' = "done"
    /\ UNCHANGED <<cargs, tools, docs, folder_exists, workbook, cqueue, success_count,
                   fail_count, cout>>
    /\ UNCHANGED NotConvert

\* convert_folder, lines 319-343: the supported files of the folder
ConvertFolder ==
    /\ cpc = "main"
    /\ cargs.mode = "folder"
    /\ cqueue' = IF folder_exists
                 THEN SelectSeq(docs, LAMBDA d : d.ext \in SUPPORTED_FORMATS)
                 ELSE << >>
    /\ cpc' = "loop"
    /\ UNCHANGED <<cargs, tools, docs, folder_exists, workbook, targets, invoked,
                   success_count, fail_count, cout, cexit>>
    /\ UNCHANGED NotConvert

\* convert_folder, lines 345-357: one file of the batch
ConvertNext ==
    /\ cpc = "loop"
    /\ cqueue # << >>
    /\ \E ran \in BOOLEAN :
        LET doc == Head(cqueue)
            result == convert_file(doc, targets[doc.stem], ran)
        IN  /\ Apply(doc, result)
            /\ success_count' = IF result.ok THEN success_count + 1 ELSE success_count
            /\ fail_count' = IF result.ok THEN fail_count ELSE fail_count + 1
    /\ cqueue' = Tail(cqueue)
    /\ UNCHANGED <<cargs, tools, docs, folder_exists, workbook, cpc, cout, cexit>>
    /\ UNCHANGED NotConvert

\* main(), lines 432-436: the counts, and the exit status
FolderReport ==
    /\ cpc = "loop"
    /\ cqueue = << >>
    /\ cout' = << [line |-> "Successfully converted", count |-> success_count] >>
               \o (IF fail_count > 0
                   THEN << [line |-> "Failed", count |-> fail_count] >> ELSE << >>)
    /\ cexit' = exit_status(fail_count # 0)
    /\ cpc' = "done"
    /\ UNCHANGED <<cargs, tools, docs, folder_exists, workbook, targets, cqueue, invoked,
                   success_count, fail_count>>
    /\ UNCHANGED NotConvert

\* the machines a run may meet: everything installed, nothing, pandoc alone, the
\* fallbacks without pandoc, and each fallback missing beside pandoc
Machine(pandoc, pdftotext, openpyxl, pptx) ==
    [pandoc |-> pandoc, pdftotext |-> pdftotext, openpyxl |-> openpyxl, pptx |-> pptx]
Machines == { Machine(TRUE, TRUE, TRUE, TRUE), Machine(FALSE, FALSE, FALSE, FALSE),
              Machine(TRUE, FALSE, FALSE, FALSE), Machine(FALSE, TRUE, TRUE, TRUE),
              Machine(TRUE, TRUE, FALSE, TRUE), Machine(FALSE, FALSE, TRUE, FALSE) }

Stems == {"a", "b"}

\* the converter has not run: its variables in the other specifications
ConvertIdle ==
    /\ cargs = [mode |-> NONE, overwrite |-> FALSE, delete_original |-> FALSE]
    /\ tools = Machine(FALSE, FALSE, FALSE, FALSE)
    /\ docs = << >>
    /\ folder_exists = FALSE
    /\ workbook = << >>
    /\ targets = [s \in Stems |-> AbsentMd]
    /\ cpc = "done"
    /\ cqueue = << >>
    /\ invoked = << >>
    /\ success_count = 0
    /\ fail_count = 0
    /\ cout = << >>
    /\ cexit = 0

\* main() up to line 418: the arguments parsed, the converter constructed
MainParsed ==
    /\ cpc = "main"
    /\ cqueue = << >>
    /\ invoked = << >>
    /\ success_count = 0
    /\ fail_count = 0
    /\ cout = << >>
    /\ cexit = 0

ConvertStart ==
    /\ MainParsed
    /\ cargs \in [mode : {"file", "folder"}, overwrite : BOOLEAN, delete_original : BOOLEAN]
    /\ tools \in Machines
    /\ workbook = UsualWorkbook
    /\ targets \in [Stems -> {AbsentMd, OldMd}]
    /\ IF cargs.mode = "file"
       THEN /\ docs \in { << [d EXCEPT !.exists = e] >> : d \in DocKinds, e \in BOOLEAN }
            /\ folder_exists = FALSE
       ELSE /\ docs \in UNION { [1..n -> DocKinds] : n \in 0..MaxDocs }
            /\ \A i, j \in DOMAIN docs : docs[i] = docs[j] => i = j
            /\ folder_exists \in BOOLEAN
            /\ ~folder_exists => docs = << >>

NextConvert ==
    \/ ConvertSingle
    \/ ConvertFolder
    \/ ConvertNext
    \/ FolderReport

\* one spreadsheet given as --file, openpyxl installed
ExcelStart ==
    /\ MainParsed
    /\ cargs \in [mode : {"file"}, overwrite : BOOLEAN, delete_original : {FALSE}]
    /\ tools \in { m \in Machines : m.openpyxl }
    /\ workbook \in Workbooks
    /\ targets \in [Stems -> {AbsentMd}]
    /\ docs = << Doc("b", ".xlsx", TRUE) >>
    /\ folder_exists = FALSE

NextExcel == ConvertSingle

\* ----------------------------------------------------- sharepoint-access.py
\* Strings are sequences of tokens: a token is a character ("/", "?", "&"), an
\* escape ("%2F", "%20") or a run of characters none of the tests looks into.
\* "id=" is one token, so `'id=' in url` is its membership in the sequence.

MaxSegs == 2        \* path segments after the site name

\* s.find(p): the first position where p occurs in s, 0 when it does not
find(s, p) ==
    LET at == { i \in 1..(Len(s) - Len(p) + 1) : SubSeq(s, i, i + Len(p) - 1) = p }
    IN  IF at = {} THEN 0 ELSE CHOOSE i \in at : \A j \in at : i <= j

\* s.split(p, maxsplit)
RECURSIVE split(_, _, _)
split(s, p, maxsplit) ==
    IF maxsplit = 0 \/ find(s, p) = 0
    THEN << s >>
    ELSE << SubSeq(s, 1, find(s, p) - 1) >>
         \o split(SubSeq(s, find(s, p) + Len(p), Len(s)), p, maxsplit - 1)

\* p.join(parts)
RECURSIVE join(_, _)
join(parts, p) ==
    IF parts = << >> THEN << >>
    ELSE IF Len(parts) = 1 THEN parts[1]
    ELSE parts[1] \o p \o join(Tail(parts), p)

\* s.strip('/')
RECURSIVE strip(_)
strip(s) ==
    IF s = << >> THEN s
    ELSE IF Head(s) = "/" THEN strip(Tail(s))
    ELSE IF s[Len(s)] = "/" THEN strip(SubSeq(s, 1, Len(s) - 1))
    ELSE s

\* urllib.parse.unquote
unquote(s) ==
    [i \in DOMAIN s |-> CASE s[i] = "%2F" -> "/"
                          [] s[i] = "%20" -> " "
                          [] OTHER -> s[i]]

SLASH == << "/" >>
SITES == << "/", "sites", "/" >>

\* ---- the URLs a user may give
HOST == "co.sharepoint.com"
Param(name, value) == [name |-> name, value |-> value]
\* a parameter name as it is spelled: "viewid=" ends in "id="
Spelled(name) ==
    CASE name = "id" -> << "id=" >>
      [] name = "viewid" -> << "view", "id=" >>
      [] OTHER -> << "web=" >>

RECURSIVE QueryString(_)
QueryString(params) ==
    IF params = << >> THEN << >>
    ELSE Spelled(Head(params).name) \o Head(params).value
         \o (IF Len(params) > 1 THEN << "&" >> ELSE << >>) \o QueryString(Tail(params))

Url(path, params) == [path |-> path, params |-> params]
\* the URL as the string handed to --url
UrlString(u) ==
    << "https://", HOST >> \o u.path
    \o (IF u.params = << >> THEN << >> ELSE << "?" >> \o QueryString(u.params))

\* urlparse(url).netloc and .path
netloc(url) == url[2]
path_of(url) ==
    LET rest == SubSeq(url, 3, Len(url))
    IN  IF find(rest, << "?" >>) = 0 THEN rest
        ELSE SubSeq(rest, 1, find(rest, << "?" >>) - 1)

Segments == { << "Lib" >>, << "Shared", "%20", "Documents" >>, << "a" >>, << "b.docx" >> }
Rests == { join(segs, SLASH) : segs \in UNION { [1..n -> Segments] : n \in 1..MaxSegs } }
DisplayPaths ==
    { << "/", "sites", "/", "S" >>, << "/", "sites", "/", "S", "/" >>,
      << "/", "personal", "/", "a" >> }
    \cup { << "/", "sites", "/", "S", "/" >> \o rest : rest \in Rests }

CanonItem == << "%2F", "sites", "%2F", "T", "%2F", "Lib", "%2F", "a", "%2F", "b.docx" >>
CanonLibrary == << "%2F", "sites", "%2F", "T", "%2F", "Lib" >>
CanonSite == << "%2F", "sites", "%2F", "T" >>
Queries ==
    { << >>,
      << Param("id", CanonItem) >>,
      << Param("id", CanonLibrary) >>,
      << Param("id", CanonSite) >>,
      << Param("id", << "7" >>) >>,
      << Param("id", CanonItem), Param("viewid", << "7" >>) >>,
      << Param("viewid", << "7" >>), Param("id", CanonItem) >>,
      << Param("viewid", CanonItem) >>,
      << Param("web", << "1" >>) >> }
Urls == { Url(path, params) : path \in DisplayPaths, params \in Queries }

Parsed(host, site, item) == [hostname |-> host, site_path |-> site, item_path |-> item]

\* _parse_url, lines 51-68: the path-segment strategy
parse_path(url) ==
    LET full_path == unquote(path_of(url))
        parts == split(full_path, SITES, 1)
        site_parts == split(parts[2], SLASH, 1)
    IN  IF find(full_path, SITES) # 0
        THEN Parsed(netloc(url), << "/", "sites", "/" >> \o site_parts[1],
                    IF Len(site_parts) > 1 THEN SLASH \o site_parts[2] ELSE << >>)
        ELSE Parsed(netloc(url), << >>, full_path)

\* _parse_url, lines 70-80: what follows the first 'id=' up to the next 'id=' or
\* '&', when it decodes to /sites/<site>/<library>...
id_decoded(url) ==
    unquote(split(split(url, << "id=" >>, Len(url))[2], << "&" >>, Len(url))[1])
parse_id(url, parsed) ==
    LET id_parts == split(id_decoded(url), SLASH, 4)
    IN  IF find(url, << "id=" >>) # 0 /\ IsPrefix(SITES, id_decoded(url))
           /\ Len(id_parts) >= 4
        THEN [parsed EXCEPT
                !.site_path = SLASH \o id_parts[2] \o SLASH \o id_parts[3],
                !.item_path = SLASH \o join(SubSeq(id_parts, 4, Len(id_parts)), SLASH)]
        ELSE parsed

\* _parse_url, lines 42-82
parse_url(url) == parse_id(url, parse_path(url))

\* ---- Graph endpoints
RootChildren == [of |-> "drive", what |-> "root/children", path |-> << >>]
Children(path) == [of |-> "drive", what |-> "root:/<path>:/children", path |-> path]
Item(path) == [of |-> "drive", what |-> "root:/<path>", path |-> path]
SiteEndpoint(host, site) == [of |-> "site", what |-> host, path |-> site]
DrivesEndpoint == [of |-> "site", what |-> "drives", path |-> << >>]

\* list_folder, lines 194-205: the path below the library
list_relative(path) ==
    LET path_parts == split(strip(path), SLASH, 1)
    IN  IF Len(path_parts) > 1 THEN path_parts[2] ELSE << >>
list_endpoint_children(path) == Children(list_relative(path))
list_endpoint(path) ==
    IF list_relative(path) # << >> THEN Children(list_relative(path)) ELSE RootChildren

\* download_file, lines 243-250, and get_metadata, lines 285-291
item_relative(path) ==
    LET path_parts == split(strip(path), SLASH, 1)
    IN  IF Len(path_parts) > 1 THEN path_parts[2] ELSE strip(path)
item_endpoint(path) == Item(item_relative(path))

Call(what, ok) == [what |-> what, ok |-> ok]
Az(args) == [of |-> "az", what |-> args, path |-> << >>]
DownloadUrl == [of |-> "download", what |-> "downloadUrl", path |-> << >>]

SpGoto(next) == sp_pc' = next /\ UNCHANGED sp_exit
\* sys.exit(1) of main(), lines 337-359
SpFail_later(next) == sp_pc' = next /\ sp_exit' = 1
SpFail(next) == sp_pc' = "done" /\ sp_exit' = 1

\* main(), lines 324-333: SharePointAccess(args.url)
SpParse ==
    /\ sp_pc = "parse"
    /\ hostname' = parse_url(UrlString(sp_url)).hostname
    /\ site_path' = parse_url(UrlString(sp_url)).site_path
    /\ item_path' = parse_url(UrlString(sp_url)).item_path
    /\ SpGoto("check_az")
    /\ UNCHANGED <<sp_url, sp_action, access_token, site_id, drive_id, issued>>
    /\ UNCHANGED NotSharePoint

\* check_az_installed, lines 102-113
check_az_installed ==
    /\ sp_pc = "check_az"
    /\ \E ok \in BOOLEAN :
        /\ issued' = Append(issued, Call(Az("version"), ok))
        /\ IF ok THEN SpGoto("token") ELSE SpFail("token")
    /\ UNCHANGED <<sp_url, sp_action, hostname, site_path, item_path, access_token,
                   site_id, drive_id>>
    /\ UNCHANGED NotSharePoint

\* get_access_token, lines 115-132
get_access_token ==
    /\ sp_pc = "token"
    /\ \E ok \in BOOLEAN :
        /\ issued' = Append(issued, Call(Az("account get-access-token"), ok))
        /\ access_token' = IF ok THEN "token" ELSE access_token
        /\ IF ok THEN SpGoto("site") ELSE SpFail("site")
    /\ UNCHANGED <<sp_url, sp_action, hostname, site_path, item_path, site_id, drive_id>>
    /\ UNCHANGED NotSharePoint

\* get_site, lines 153-168
get_site ==
    /\ sp_pc = "site"
    /\ \E ok \in BOOLEAN :
        /\ issued' = Append(issued, Call(SiteEndpoint(hostname, site_path), ok))
        /\ site_id' = IF ok THEN "site-id" ELSE site_id
        /\ IF ok THEN SpGoto("drives") ELSE SpFail("drives")
    /\ UNCHANGED <<sp_url, sp_action, hostname, site_path, item_path, access_token,
                   drive_id>>
    /\ UNCHANGED NotSharePoint

\* get_drives, lines 170-187: the first library of the site, if it has one
get_drives ==
    /\ sp_pc = "drives"
    /\ \E ok \in BOOLEAN, libraries \in {0, 1} :
        /\ issued' = Append(issued, Call(DrivesEndpoint, ok))
        /\ drive_id' = IF ok /\ libraries > 0 THEN "drive-id" ELSE drive_id
        /\ IF ok /\ libraries > 0 THEN SpGoto("action") ELSE SpFail("action")
    /\ UNCHANGED <<sp_url, sp_action, hostname, site_path, item_path, access_token,
                   site_id>>
    /\ UNCHANGED NotSharePoint

\* main(), lines 352-361
SpDone(ok) == sp_pc' = "done" /\ sp_exit' = IF ok THEN 0 ELSE 1

\* list_folder, lines 189-236
list_folder ==
    /\ sp_pc = "action" /\ sp_action = "list"
    /\ \E ok \in BOOLEAN :
        /\ issued' = Append(issued, Call(list_endpoint(item_path), ok))
        /\ SpDone(ok)
    /\ UNCHANGED <<sp_url, sp_action, hostname, site_path, item_path, access_token,
                   site_id, drive_id>>
    /\ UNCHANGED NotSharePoint

\* download_file, lines 238-280: the item, then its download URL
download_file ==
    /\ sp_pc = "action" /\ sp_action = "download"
    /\ \E found \in BOOLEAN, has_url \in BOOLEAN, ok \in BOOLEAN :
        /\ has_url => found
        /\ ok => has_url
        /\ issued' = issued \o << Call(item_endpoint(item_path), found) >>
                     \o (IF has_url THEN << Call(DownloadUrl, ok) >> ELSE << >>)
        /\ SpDone(ok)
    /\ UNCHANGED <<sp_url, sp_action, hostname, site_path, item_path, access_token,
                   site_id, drive_id>>
    /\ UNCHANGED NotSharePoint

\* get_metadata, lines 282-309
get_metadata ==
    /\ sp_pc = "action" /\ sp_action = "metadata"
    /\ \E ok \in BOOLEAN :
        /\ issued' = Append(issued, Call(item_endpoint(item_path), ok))
        /\ SpDone(ok)
    /\ UNCHANGED <<sp_url, sp_action, hostname, site_path, item_path, access_token,
                   site_id, drive_id>>
    /\ UNCHANGED NotSharePoint

\* the file browser has not run: its variables in the other specifications
SharePointIdle ==
    /\ sp_url = Url(<< >>, << >>)
    /\ sp_action = NONE
    /\ hostname = NONE
    /\ site_path = << >>
    /\ item_path = << >>
    /\ access_token = NONE
    /\ site_id = NONE
    /\ drive_id = NONE
    /\ sp_pc = "done"
    /\ sp_exit = 0

\* main() up to line 322: the arguments parsed
SharePointStart ==
    /\ sp_url \in Urls
    /\ sp_action \in {"list", "download", "metadata"}
    /\ hostname = NONE
    /\ site_path = << >>
    /\ item_path = << >>
    /\ access_token = NONE
    /\ site_id = NONE
    /\ drive_id = NONE
    /\ sp_pc = "parse"
    /\ sp_exit = 0
    /\ issued = << >>

NextSharePoint ==
    \/ SpParse
    \/ check_az_installed
    \/ get_access_token
    \/ get_site
    \/ get_drives
    \/ list_folder
    \/ download_file
    \/ get_metadata

\* -------------------------------------------------------- setup-linting.py

MaxGenerate == 2    \* calls of generate_pre_commit_config on one object

Languages == {"python", "typescript", "flutter", "csharp", "terraform"}

Hook(repo, has_rev, ids) == [repo |-> repo, has_rev |-> has_rev, ids |-> ids]
\* generate_pre_commit_config, lines 278-287
BasicHooks ==
    << Hook("pre-commit-hooks", TRUE, << "trailing-whitespace", "end-of-file-fixer",
                                         "check-yaml", "check-added-large-files" >>) >>
\* generate_python_config, lines 166-180
PythonHooks ==
    << Hook("black", TRUE, << "black" >>), Hook("ruff-pre-commit", TRUE, << "ruff" >>),
       Hook("mirrors-mypy", TRUE, << "mypy" >>) >>
\* generate_typescript_config, lines 219-235
TypescriptHooks ==
    << Hook("mirrors-eslint", TRUE, << "eslint" >>),
       Hook("mirrors-prettier", TRUE, << "prettier" >>) >>
\* generate_flutter_config, lines 237-260: two local hooks, without "rev"
FlutterHooks ==
    << Hook("local", FALSE, << "dart-format" >>), Hook("local", FALSE, << "dart-analyze" >>) >>
\* generate_terraform_config, lines 262-271
TerraformHooks ==
    << Hook("pre-commit-terraform", TRUE, << "terraform_fmt", "terraform_validate" >>) >>

\* the hooks a language adds; csharp is detected but has none
HooksOf(language) ==
    CASE language = "python" -> PythonHooks
      [] language = "typescript" -> TypescriptHooks
      [] language = "flutter" -> FlutterHooks
      [] language = "terraform" -> TerraformHooks
      [] OTHER -> << >>

WhenDetected(detected, language) ==
    IF language \in detected THEN HooksOf(language) ELSE << >>

\* lines 278-300, the list built by one call: it starts from the basic hooks
hooks_built(before, detected) ==
    BasicHooks
    \o WhenDetected(detected, "python") \o WhenDetected(detected, "typescript")
    \o WhenDetected(detected, "flutter") \o WhenDetected(detected, "terraform")

\* lines 308-310: hook['rev'] of every entry
KeyError(hooks) == \E i \in DOMAIN hooks : ~hooks[i].has_rev

NoYaml == [exists |-> FALSE, languages |-> {}, repos |-> << >>]
Yaml(detected, hooks) == [exists |-> TRUE, languages |-> detected, repos |-> hooks]

Cmd(line) == [of |-> "cmd", what |-> line, path |-> << >>]
PRE_COMMIT_INSTALL == Cmd("pre-commit install")
PIP_PRE_COMMIT == Cmd("pip install --user pre-commit")

\* lines 351-362, the handler of FileNotFoundError: pip, then the command again
retry_regardless(pip, again) ==
    << Call(PIP_PRE_COMMIT, pip), Call(PRE_COMMIT_INSTALL, again = "ok") >>
retry_after_install(pip, again) ==
    << Call(PIP_PRE_COMMIT, pip) >>
    \o (IF pip THEN << Call(PRE_COMMIT_INSTALL, again = "ok") >> ELSE << >>)

LintGoto(next) == lint_pc' = next /\ lint_error' = NONE
LintRaise(exception) == lint_pc' = "done" /\ lint_error' = exception

\* detect_languages, lines 26-61, and run(), lines 395-399
detect_languages ==
    /\ lint_pc = "detect"
    /\ detected_languages' = on_disk.languages
    /\ IF on_disk.languages = {} THEN LintRaise("SystemExit(1)") ELSE LintGoto("install")
    /\ UNCHANGED <<on_disk, pre_commit_hooks, config_yaml, generated, issued>>
    /\ UNCHANGED NotLint

\* install_tools, lines 119-139: pip for python (fatal when it fails), npm for
\* typescript (reported when it fails); tools already there are not installed
install_tools ==
    /\ lint_pc = "install"
    /\ \E pip \in {"skip", "ok", "failed"}, npm \in {"skip", "ok", "failed"} :
        /\ ("python" \notin detected_languages) => pip = "skip"
        /\ ("typescript" \notin detected_languages \/ pip = "failed") => npm = "skip"
        /\ issued' = issued
             \o (IF pip = "skip" THEN << >> ELSE << Call(Cmd("pip install --user"), pip = "ok") >>)
             \o (IF npm = "skip" THEN << >> ELSE << Call(Cmd("npm install --save-dev"), npm = "ok") >>)
        /\ IF pip = "failed" THEN LintRaise("SystemExit(1)") ELSE LintGoto("generate")
    /\ UNCHANGED <<on_disk, detected_languages, pre_commit_hooks, config_yaml, generated>>
    /\ UNCHANGED NotLint

\* generate_pre_commit_config, lines 273-332, with generate_python_config's
\* pyproject.toml (lines 182-185); run() calls it once, a caller may call it again
generate_pre_commit_config ==
    /\ lint_pc = "generate"
    /\ generated < MaxGenerate
    /\ generated' = generated + 1
    /\ pre_commit_hooks' = hooks_built(pre_commit_hooks, detected_languages)
    /\ on_disk' = [on_disk EXCEPT !.pyproject = @ \/ "python" \in detected_languages]
    /\ IF KeyError(pre_commit_hooks')
       THEN LintRaise("KeyError") /\ UNCHANGED config_yaml
       ELSE /\ config_yaml' = Yaml(detected_languages, pre_commit_hooks')
            /\ LintGoto("generate")
    /\ UNCHANGED <<detected_languages, issued>>
    /\ UNCHANGED NotLint

\* install_pre_commit_hooks, lines 334-364: when pre-commit is not found it is
\* installed and `pre-commit install` is run again, outside any handler
install_pre_commit_hooks ==
    /\ lint_pc = "generate"
    /\ generated > 0
    /\ IF ~on_disk.git
       THEN LintGoto("test") /\ UNCHANGED issued
       ELSE \E first \in {"ok", "failed", "not found"}, pip \in BOOLEAN,
               again \in {"ok", "failed", "not found"} :
            CASE first = "ok" ->
                    /\ issued' = Append(issued, Call(PRE_COMMIT_INSTALL, TRUE))
                    /\ LintGoto("test")
              [] first = "failed" ->
                    /\ issued' = Append(issued, Call(PRE_COMMIT_INSTALL, FALSE))
                    /\ LintGoto("test")
              [] OTHER ->
                    /\ issued' = issued \o << Call(PRE_COMMIT_INSTALL, FALSE) >>
                                 \o retry_after_install(pip, again)
                    /\ IF ~pip \/ again = "failed" THEN LintRaise("CalledProcessError")
                       ELSE IF again = "not found" THEN LintRaise("FileNotFoundError")
                       ELSE LintGoto("test")
    /\ UNCHANGED <<on_disk, detected_languages, pre_commit_hooks, config_yaml, generated>>
    /\ UNCHANGED NotLint

\* test_hooks, lines 366-386
test_hooks ==
    /\ lint_pc = "test"
    /\ \E ok \in BOOLEAN :
        issued' = Append(issued, Call(Cmd("pre-commit run --all-files"), ok))
    /\ LintGoto("done")
    /\ UNCHANGED <<on_disk, detected_languages, pre_commit_hooks, config_yaml, generated>>
    /\ UNCHANGED NotLint

\* no LintingSetup object: its variables in the other specifications
LintIdle ==
    /\ on_disk = [languages |-> {}, git |-> FALSE, pyproject |-> FALSE]
    /\ detected_languages = {}
    /\ pre_commit_hooks = << >>
    /\ config_yaml = NoYaml
    /\ generated = 0
    /\ lint_pc = "done"
    /\ lint_error = NONE

\* __init__, lines 19-24, in a project with any of the languages
LintStart ==
    /\ on_disk \in [languages : SUBSET Languages, git : BOOLEAN, pyproject : BOOLEAN]
    /\ detected_languages = {}
    /\ pre_commit_hooks = << >>
    /\ config_yaml = NoYaml
    /\ generated = 0
    /\ lint_pc = "detect"
    /\ lint_error = NONE
    /\ issued = << >>

NextLint ==
    \/ detect_languages
    \/ install_tools
    \/ generate_pre_commit_config
    \/ install_pre_commit_hooks
    \/ test_hooks

\* main() has not begun
MainNotStarted ==
    /\ config_file = ConfigAbsent
    /\ gitignore_file = GitignoreAbsent
    /\ args_force = FALSE
    /\ wpc = "start"
    /\ overwrite = ""
    /\ board_type = NONE
    /\ repository_id = NONE
    /\ workspace_id = NONE
    /\ workspaces = << >>
    /\ default_pipeline_id = NONE
    /\ default_pipeline_name = NONE
    /\ pipelines = << >>
    /\ organization_id = NONE
    /\ config = NoConfig
    /\ mcp_config = NoMcp
    /\ wexit = 0
    /\ werror = "none"
    /\ choice = NONE
    /\ inputs = NoInputs

\* the wizard has not run: its variables in the builder's specification
SetupIdle ==
    /\ MainNotStarted
    /\ claude_json = RegistryAbsent
    /\ settings_file = SettingsAbsent

SetupStart ==
    /\ config_file \in {ConfigAbsent, OldConfig}
    /\ claude_json \in RegistryStates
    /\ settings_file \in SettingsStates
    /\ gitignore_file \in GitignoreStates
    /\ HomeAndProject(claude_json, settings_file, gitignore_file)
    /\ args_force \in BOOLEAN
    /\ wpc = "start"
    /\ overwrite = ""
    /\ board_type = NONE
    /\ repository_id = NONE
    /\ workspace_id = NONE
    /\ workspaces = << >>
    /\ default_pipeline_id = NONE
    /\ default_pipeline_name = NONE
    /\ pipelines = << >>
    /\ organization_id = NONE
    /\ config = NoConfig
    /\ mcp_config = NoMcp
    /\ wexit = 0
    /\ werror = "none"
    /\ choice = NONE
    /\ inputs = NoInputs

NextSetup ==
    \/ CheckExisting
    \/ ChooseBoard
    \/ ZToken
    \/ ZRepository
    \/ ZWorkspaceSearch
    \/ ZWorkspaceSelect
    \/ ZPipelineFetch
    \/ ZPipelineSelect
    \/ ZOrganization
    \/ ZLabels
    \/ setup_jira
    \/ setup_linear
    \/ WriteConfig
    \/ update_claude_json
    \/ update_claude_settings
    \/ update_gitignore

\* the builder has not run: its variables in the wizard's specification
BuildIdle ==
    /\ head = {}
    /\ index = {}
    /\ worktree = {}
    /\ edits = 0
    /\ dist_dir = FALSE
    /\ skills_dir = FALSE
    /\ full_zip = NoArchive
    /\ skill_zips = [n \in SkillNames |-> NoArchive]
    /\ args_list = FALSE
    /\ pc = "start"
    /\ skills = << >>
    /\ built = 0
    /\ stdout = << >>
    /\ exit_code = 0
    /\ error = "none"
    /\ runs = 1

\* one invocation of setup.py, the builder idle
InitSetup ==
    /\ SetupStart
    /\ BuildIdle
    /\ RaceIdle
    /\ ConvertIdle
    /\ SharePointIdle
    /\ LintIdle
    /\ issued = << >>

SpecSetup == InitSetup /\ [][NextSetup]_vars

\* invocations of build.py, the wizard idle
InitBuild ==
    /\ BuildStart
    /\ SetupIdle
    /\ RaceIdle
    /\ ConvertIdle
    /\ SharePointIdle
    /\ LintIdle
    /\ issued = << >>

SpecBuild == InitBuild /\ [][NextBuild]_vars

\* two invocations of setup.py in their write phase, the builder idle
InitRace ==
    /\ RaceStart
    /\ MainNotStarted
    /\ BuildIdle
    /\ ConvertIdle
    /\ SharePointIdle
    /\ LintIdle
    /\ issued = << >>

SpecRace == InitRace /\ [][NextRace]_vars

\* one invocation of convert-docs-to-md.py, the other tools idle
InitConvert ==
    /\ ConvertStart
    /\ BuildIdle
    /\ SetupIdle
    /\ RaceIdle
    /\ SharePointIdle
    /\ LintIdle
    /\ issued = << >>

SpecConvert == InitConvert /\ [][NextConvert]_vars

\* the same for one spreadsheet, over the workbooks it may hold
InitExcel ==
    /\ ExcelStart
    /\ BuildIdle
    /\ SetupIdle
    /\ RaceIdle
    /\ SharePointIdle
    /\ LintIdle
    /\ issued = << >>

SpecExcel == InitExcel /\ [][NextExcel]_vars

\* one invocation of sharepoint-access.py, the other tools idle
InitSharePoint ==
    /\ SharePointStart
    /\ BuildIdle
    /\ SetupIdle
    /\ RaceIdle
    /\ ConvertIdle
    /\ LintIdle

SpecSharePoint == InitSharePoint /\ [][NextSharePoint]_vars

\* one LintingSetup object of setup-linting.py, the other tools idle
InitLint ==
    /\ LintStart
    /\ BuildIdle
    /\ SetupIdle
    /\ RaceIdle
    /\ ConvertIdle
    /\ SharePointIdle

SpecLint == InitLint /\ [][NextLint]_vars

\* ------------------------------------------------------- claims: build.py

\* the steps of main(), recognised by what they change
FullBuilt == pc = "full" /\ pc' = "discover"
Discovered == (pc = "discover" /\ pc' = "skills") \/ (pc = "list_discover" /\ pc' = "list_skills")
SkillStep == pc = "skills" /\ built < Len(skills) /\ (built' = built + 1 \/ pc' = "done")
TrackedUnder(skill_name) == { f \in index : IsPrefix(skill_src_prefix(skill_name), f) }

C2_SkillArchiveExact ==
    [][SkillStep /\ error' # "git ls-files failed" /\ TrackedUnder(skills[built + 1]) # {}
        => skill_zips'[skills[built + 1]] =
              Archive({ arcname(skills[built + 1], f) : f \in TrackedUnder(skills[built + 1]) })]_vars

\* C3: when main() processes a unit with zero tracked files it warns, leaves the unit's
\* archive empty or absent, and goes on: the run is not ended by an error.
C3_EmptyUnitSkipped ==
    [][SkillStep /\ error' # "git ls-files failed" /\ TrackedUnder(skills[built + 1]) = {}
        => /\ pc' # "done"
           /\ stdout'[Len(stdout) + 1] = Line("warn_empty", skills[built + 1], << >>, 0)
           /\ skill_zips'[skills[built + 1]].entries = {}]_vars

\* C4: discover_skills returns exactly the names N whose marker file skills/N/SKILL.md
\* is tracked, once each, in ascending order; a tracked path that only has a component
\* SKILL.md in that position (skills/N/SKILL.md/x) does not make N a unit.
C4_DiscoverExactlyMarkerFiles ==
    [][Discovered
        => skills' = SortedNames({ n \in SkillNames : <<"skills", n, MARKER>> \in index })]_vars

\* the file lines printed after line i and before the next unit's line
FilesListedFor(i) ==
    { j \in DOMAIN stdout :
        /\ j > i
        /\ stdout[j].kind = "file"
        /\ \A k \in (i + 1)..j : stdout[k].kind # "skill" }

\* C5 (as stated): a --list run writes nothing, and lists the files and their count
\* for the full set and for each discovered unit.
C5_ListsFilesOfEachUnit ==
    args_list /\ pc = "done" /\ exit_code = 0
        => \A i \in DOMAIN stdout :
             /\ stdout[i].kind = "full" => stdout[i].n = Cardinality(FilesListedFor(i))
             /\ stdout[i].kind = "skill" => stdout[i].n = Cardinality(FilesListedFor(i))

\* C5 (amended): a --list run never creates the output directory or writes an archive
\* and never reaches the build; it prints the count and every file of the full set,
\* and for each discovered unit one line with its name and file count (not its files).
C5_ListOnly ==
    /\ [][args_list /\ pc # "done"
            => UNCHANGED Dist /\ pc' \in {"start", "list", "list_discover", "list_skills", "done"}]_vars
    /\ [][pc = "list" /\ pc' = "list_discover"
            => /\ Len(stdout') = 1 + Cardinality(index)
               /\ stdout'[1] = Line("full", "", << >>, Cardinality(index))
               /\ { stdout'[i].path : i \in 2..Len(stdout') } = index
               /\ \A i \in 2..Len(stdout') : stdout'[i].kind = "file"]_vars
    /\ [][pc = "list_skills" /\ built' = built + 1
            => stdout' = Append(stdout, Line("skill", skills[built + 1], << >>,
                                             Cardinality(TrackedUnder(skills[built + 1]))))]_vars

C5_Witness ==
    /\ args_list /\ pc = "done" /\ exit_code = 0
    /\ Len(skills) = 2
    /\ \E i \in DOMAIN stdout : stdout[i].kind = "skill" /\ stdout[i].n = 2
    /\ ~dist_dir /\ ~full_zip.exists

\* ------------------------------------------------------- claims: setup.py

Count(x, seq) == Cardinality({ i \in DOMAIN seq : seq[i] = x })

\* s occurs in t as a subsequence: its entries, in their order
IsSubseq(s, t) ==
    \E f \in [DOMAIN s -> DOMAIN t] :
        /\ \A i \in DOMAIN s : t[f[i]] = s[i]
        /\ \A i, j \in DOMAIN s : i < j => f[i] < f[j]

\* the run reached the end of main()
Completed == wpc = "done" /\ wexit = 0 /\ board_type \in Kinds

\* C6: with a config on disk and no --force, the answer "no" to the overwrite
\* prompt ends the run with status 0 and leaves the project config, the
\* registry, the permission file and .gitignore as they were.
C6_RefusalChangesNothing ==
    [][ wpc = "start" /\ config_file.exists /\ ~args_force /\ overwrite' = "n"
        => wpc' = "done" /\ wexit' = 0 /\ UNCHANGED fvars ]_vars

C6_Witness ==
    /\ wpc = "done" /\ wexit = 0 /\ werror = "Setup cancelled"
    /\ overwrite = "n" /\ ~args_force
    /\ config_file = OldConfig

\* C7 as stated: after a completed run for a kind, the wildcard of that kind
\* occurs exactly once in permissions.allow of the permission file.
C7_WildcardExactlyOnce ==
    Completed => Count(wildcard(board_type), settings_file.allow) = 1

\* permissions.allow as update_claude_settings reads it from the file
AllowRead(f) ==
    IF f.exists /\ f.parses /\ f.perms = "object" /\ f.has_allow THEN f.allow ELSE << >>

\* C7 amended: when a run for the primary kind writes the permission file, the
\* wildcard is appended if the list read did not hold it and the list is written
\* back as read if it did, so a list that held it at most once holds it once.
C7_WildcardNotDuplicated ==
    [][ wpc = "settings" /\ wpc' = "gitignore" /\ board_type = "zenhub" /\ werror' = werror
        => LET before == AllowRead(settings_file)
               after == settings_file'.allow
               wz == wildcard(board_type)
           IN  /\ settings_file'.exists /\ settings_file'.parses
               /\ Count(wz, before) = 0 => after = Append(before, wz)
               /\ Count(wz, before) > 0 => after = before
               /\ Count(wz, before) <= 1 => Count(wz, after) = 1 ]_vars

C7_Witness ==
    /\ Completed /\ board_type = "zenhub" /\ werror = "none"
    /\ settings_file = SettingsDoc("object", TRUE, << "Bash(ls:*)", "mcp__zenhub__*" >>, {"model", "env"})

\* C8: no step of a run removes or reorders an entry of permissions.allow or
\* drops another setting of the permission file, whatever the file held,
\* a file that json.load rejects included.
C8_PermissionsAppendOnly ==
    [][ /\ IsSubseq(settings_file.allow, settings_file'.allow)
        /\ settings_file.other \subseteq settings_file'.other ]_vars

\* the numbered list a step displays: the board types, the workspaces found,
\* the pipelines fetched
Displayed ==
    CASE wpc = "board" -> << "zenhub", "jira", "linear" >>
      [] wpc = "z_select" -> [i \in DOMAIN workspaces |-> workspaces[i].id]
      [] wpc = "z_pipe_select" -> [i \in DOMAIN pipelines |-> pipelines[i].id]
      [] OTHER -> << >>

\* of the three values a numbered prompt can set, the one the step at `at` sets
Selected(at, board, workspace, pipeline) ==
    CASE at = "board" -> board
      [] at = "z_select" -> workspace
      [] at = "z_pipe_select" -> pipeline
      [] OTHER -> NONE

\* C9: an answer to a numbered prompt selects the k-th item displayed when it
\* is a number k with 1 <= k <= n; every other answer ends the run with a
\* non-zero exit and selects nothing.
C9_OnlyDisplayedNumbersSelect ==
    [][ choice' # NONE
        => LET selected == Selected(wpc, board_type', workspace_id', default_pipeline_id')
           IN  IF ~ValueError(choice') /\ int(choice') \in DOMAIN Displayed
               THEN selected = Displayed[int(choice')] /\ wpc' # "done"
               ELSE wpc' = "done" /\ wexit' # 0 /\ selected = NONE ]_vars

\* C10: a run for jira or linear never changes the registry or the permission
\* file, and when it completes the project config holds the placeholder record
\* of that kind and no server descriptor was produced.
C10_PlaceholderOnly ==
    /\ [][ (board_type \in {"jira", "linear"})
           => claude_json' = claude_json /\ settings_file' = settings_file ]_vars
    /\ [](Completed /\ board_type \in {"jira", "linear"}
           => /\ config_file = [exists |-> TRUE, content |-> config]
              /\ config.board_type = board_type
              /\ config.data.default_labels = << >>
              /\ mcp_config = NoMcp)

C10_Witness ==
    /\ Completed /\ board_type = "jira"
    /\ config_file.exists /\ config_file.content.board_type = "jira"
    /\ claude_json = UsualRegistry
    /\ settings_file = UsualSettings

\* the descriptor the registry holds for this project and the kind, NoMcp if none
Registered(f, kind) ==
    IF /\ f.exists /\ f.parses /\ f.has_projects
       /\ PROJECT_DIR \in DOMAIN f.projects
       /\ f.projects[PROJECT_DIR].has_mcpServers
       /\ kind \in DOMAIN f.projects[PROJECT_DIR].mcpServers
    THEN f.projects[PROJECT_DIR].mcpServers[kind]
    ELSE NoMcp

EntryRead(f) ==
    IF f.has_projects /\ PROJECT_DIR \in DOMAIN f.projects
    THEN f.projects[PROJECT_DIR] ELSE NewProjectEntry
ServersRead(f) == IF EntryRead(f).has_mcpServers THEN EntryRead(f).mcpServers ELSE NoFields
ProjectsRead(f) == IF f.has_projects THEN f.projects ELSE NoFields

C12_GitignoreHoldsEntryOnce ==
    [][ wpc = "gitignore" /\ wpc' = "done" /\ wexit' = 0
        => /\ gitignore_file'.exists
           /\ Count(GITIGNORE_ENTRY, gitignore_file'.lines) = 1
           /\ Count(GITIGNORE_ENTRY, gitignore_file.lines) = 1
                => gitignore_file' = gitignore_file ]_vars

\* the argument that makes a prompt unnecessary
ArgOf(prompt) ==
    CASE prompt = "overwrite" -> "force"
      [] prompt \in {"workspace_name", "workspace_choice"} -> "workspace_id"
      [] prompt = "pipeline_choice" -> "default_pipeline_id"
      [] OTHER -> prompt

\* the arguments an earlier step is known to have taken
SuppliedBefore ==
    {a \in {"force"} : args_force}
    \cup {a \in {"default_pipeline_id"} : default_pipeline_id = "P_arg"}
    \cup {a \in {"default_pipeline_name"} : default_pipeline_name = "N_arg"}
    \cup {a \in {"organization_id"} : organization_id = "O_arg"}

\* C13: no step prompts for a field whose argument was supplied, and a field
\* that was not supplied is prompted for (or resolved by a lookup), so that
\* setup_zenhub returns with every field of the record set.
C13_ArgumentsMirrorPrompts ==
    /\ [][ \A prompt \in DOMAIN inputs'.answers :
                ArgOf(prompt) \notin inputs'.given \cup SuppliedBefore ]_vars
    /\ [](wpc = "write_config" /\ board_type = "zenhub"
            => /\ ~Falsy(config.data.repository_id)
               /\ ~Falsy(config.data.workspace_id)
               /\ ~Falsy(config.data.organization_id)
               /\ ~Falsy(config.data.default_pipeline_id)
               /\ ~Falsy(config.data.default_pipeline_name))

\* the prompts a step issued
Asked(read) == DOMAIN read.answers

\* the outcome of the manual entry "Workspace ID: "
ManualWorkspace(answer, now, id, code) ==
    IF answer = CTRL_C
    THEN now = "done" /\ code = 1 /\ id = NONE
    ELSE now = "z_pipeline" /\ id = answer

\* C14, repository: the argument, else the detected ID, else the typed one.
C14_Repository ==
    [][ wpc = "z_repo"
        => IF "repository_id" \in inputs'.given
           THEN /\ repository_id' = "R_arg" /\ wpc' = "z_workspace"
                /\ Asked(inputs') = {} /\ inputs'.detected = NONE
           ELSE IF inputs'.detected # NONE
           THEN /\ repository_id' = inputs'.detected /\ wpc' = "z_workspace"
                /\ Asked(inputs') = {}
           ELSE /\ Asked(inputs') = {"repository_id"}
                /\ IF inputs'.answers["repository_id"] = CTRL_C
                   THEN wpc' = "done" /\ wexit' = 1 /\ repository_id' = NONE
                   ELSE /\ repository_id' = inputs'.answers["repository_id"]
                        /\ wpc' = "z_workspace" ]_vars

\* C14, workspace: the argument, else the search by the name typed; an empty
\* name leads to manual entry.
C14_WorkspaceSearch ==
    [][ wpc = "z_workspace"
        => IF "workspace_id" \in inputs'.given
           THEN workspace_id' = "W_arg" /\ wpc' = "z_pipeline" /\ Asked(inputs') = {}
           ELSE /\ "workspace_name" \in Asked(inputs')
                /\ CASE inputs'.answers["workspace_name"] = CTRL_C ->
                          /\ Asked(inputs') = {"workspace_name"}
                          /\ wpc' = "done" /\ wexit' = 1 /\ workspace_id' = NONE
                     [] inputs'.answers["workspace_name"] = "" ->
                          /\ Asked(inputs') = {"workspace_name", "workspace_id"}
                          /\ ManualWorkspace(inputs'.answers["workspace_id"],
                                             wpc', workspace_id', wexit')
                     [] OTHER ->
                          /\ Asked(inputs') = {"workspace_name"}
                          /\ wpc' = "z_select" /\ workspace_id' = NONE ]_vars

\* C14, search result: nothing found or a failed search leads to manual entry,
\* one match is taken without a prompt, several lead to the numbered choice.
C14_WorkspaceSelect ==
    [][ wpc = "z_select"
        => CASE Len(workspaces) = 0 ->
                  /\ Asked(inputs') = {"workspace_id"}
                  /\ ManualWorkspace(inputs'.answers["workspace_id"],
                                     wpc', workspace_id', wexit')
             [] Len(workspaces) = 1 ->
                  /\ Asked(inputs') = {}
                  /\ workspace_id' = workspaces[1].id /\ wpc' = "z_pipeline"
             [] OTHER ->
                  /\ Asked(inputs') = {"workspace_choice"}
                  /\ \/ wpc' = "done" /\ wexit' = 1 /\ workspace_id' = NONE
                     \/ /\ wpc' = "z_pipeline"
                        /\ \E i \in DOMAIN workspaces : workspace_id' = workspaces[i].id ]_vars

\* the write phase of main()
WritePhase == wpc \in {"write_config", "claude_json", "settings", "gitignore"} \/ Completed

\* C14: for the primary kind the identifiers are resolved step by step, none
\* skipped, and the write phase is reached only with values so obtained.
C14_ResolutionChain ==
    /\ C14_Repository
    /\ C14_WorkspaceSearch
    /\ C14_WorkspaceSelect
    /\ [](WritePhase /\ board_type = "zenhub"
            => /\ config.data.repository_id \in {"R_arg", "R_auto", "R_typed"}
               /\ config.data.workspace_id
                    \in {"W_arg", "W_typed"} \cup { WORKSPACES[i].id : i \in DOMAIN WORKSPACES })

C14_Witness ==
    /\ Completed /\ board_type = "zenhub"
    /\ config.data.repository_id = "R_auto"
    /\ config.data.workspace_id = "ws1"
    /\ config_file.content = config

\* ------------------------------------------------ claims: concurrent runs

\* position of an event in the log, 0 when it did not happen
Pos(p, op, file) ==
    IF \E i \in DOMAIN rlog : rlog[i] = Event(p, op, file)
    THEN CHOOSE i \in DOMAIN rlog : rlog[i] = Event(p, op, file)
    ELSE 0
Wrote(p, file) == Pos(p, "write", file) > 0
AllDone == \A p \in Procs : rpc[p] = "done"
HomeFiles == {"registry", "settings"}

\* both invocations wrote the file, and both had read it before either wrote
BothReadFirst(file) ==
    /\ \A p \in Procs : Wrote(p, file)
    /\ \A p, q \in Procs : Pos(p, "read", file) < Pos(q, "write", file)
\* both wrote the file, one of them before the other read it
OneAfterTheOther(file) ==
    /\ \A p \in Procs : Wrote(p, file)
    /\ \E p, q \in Procs : Pos(p, "write", file) < Pos(q, "read", file)
LastWriter(file) ==
    CHOOSE p \in Procs : \A q \in Procs : Pos(q, "write", file) <= Pos(p, "write", file)
FirstWriter(file) == CHOOSE p \in Procs : p # LastWriter(file)

\* the file as one invocation alone would have left it
VersionOf(p, file) ==
    IF file = "registry"
    THEN registry_merged(rstart.registry, ProjectOf(p), rkind[p], McpOf(p))
    ELSE settings_updated(rstart.settings, rkind[p])
FileNow(file) == IF file = "registry" THEN claude_json ELSE settings_file

\* the entry an invocation adds is in the file
HasEntryOf(p, file) ==
    IF file = "registry"
    THEN /\ claude_json.exists /\ claude_json.parses /\ claude_json.has_projects
         /\ ProjectOf(p) \in DOMAIN claude_json.projects
         /\ claude_json.projects[ProjectOf(p)].has_mcpServers
         /\ rkind[p] \in DOMAIN claude_json.projects[ProjectOf(p)].mcpServers
         /\ claude_json.projects[ProjectOf(p)].mcpServers[rkind[p]] = McpOf(p)
    ELSE wildcard(rkind[p]) \in Range(AllowRead(settings_file))

OncePerFile ==
    \A p \in Procs : \A file \in HomeFiles : \A op \in {"read", "write"} :
        Cardinality({ i \in DOMAIN rlog : rlog[i] = Event(p, op, file) }) <= 1

\* C15 as stated: each invocation reads and writes each home-directory file at
\* most once; when both invocations read a file before either writes it, the
\* final file is the last writer's version and the first writer's entry is lost;
\* when they run one after the other both entries are present.
C15_FirstWriterEntryLost ==
    /\ OncePerFile
    /\ AllDone =>
         \A file \in HomeFiles :
            /\ BothReadFirst(file) =>
                 /\ FileNow(file) = VersionOf(LastWriter(file), file)
                 /\ ~HasEntryOf(FirstWriter(file), file)
            /\ OneAfterTheOther(file) => \A p \in Procs : HasEntryOf(p, file)

\* C15 amended: each invocation reads and writes each home-directory file at most
\* once; when both read a file before either writes it, the final file is the
\* last writer's version; in the registry the first writer's project entry is
\* then lost, while the permission file holds the one wildcard both would add,
\* so nothing is lost there; run one after the other, both entries are present.
C15_LastWriterWins ==
    /\ OncePerFile
    /\ AllDone =>
         /\ \A file \in HomeFiles :
               /\ BothReadFirst(file) => FileNow(file) = VersionOf(LastWriter(file), file)
               /\ OneAfterTheOther(file) => \A p \in Procs : HasEntryOf(p, file)
         /\ BothReadFirst("registry") => ~HasEntryOf(FirstWriter("registry"), "registry")
         /\ BothReadFirst("settings") => \A p \in Procs : HasEntryOf(p, "settings")

\* witness: both runs loaded the registry before either wrote it, both wrote,
\* and the run that wrote first has no entry in the final registry
C15_Witness ==
    /\ AllDone
    /\ BothReadFirst("registry")
    /\ BothReadFirst("settings")
    /\ ~HasEntryOf(FirstWriter("registry"), "registry")
    /\ HasEntryOf(LastWriter("registry"), "registry")

\* ------------------------------------------------ claims: interrupted runs

Answers(read) == { read.answers[name] : name \in DOMAIN read.answers }
PromptPhase == wpc \notin {"write_config", "claude_json", "settings", "gitignore", "done"}

\* C16: an interrupt at any prompt ends the run with a non-zero exit; prompts are
\* only read before the first file write, and no step before it changes a file,
\* so a run ended by an interrupt or by an invalid choice leaves the project
\* config, the registry, the permission file and .gitignore unchanged.
C16_InterruptLeavesFiles ==
    [][ /\ (CTRL_C \in Answers(inputs')) =>
              wpc' = "done" /\ wexit' = 1 /\ werror' = "KeyboardInterrupt"
        /\ (Answers(inputs') # {}) => PromptPhase
        /\ PromptPhase => UNCHANGED fvars
        /\ (wpc # "done" /\ werror' \in {"KeyboardInterrupt", "Invalid choice"}) =>
              PromptPhase /\ wpc' = "done" /\ wexit' # 0 /\ UNCHANGED fvars
      ]_vars

\* witness: the user agreed to overwrite an existing config, then interrupted a
\* later prompt; the run ended with exit 1 and the old config is still there
C16_Witness ==
    /\ wpc = "done" /\ wexit = 1 /\ werror = "KeyboardInterrupt"
    /\ CTRL_C \in Answers(inputs)
    /\ overwrite = "y" /\ board_type = "zenhub"
    /\ config_file = OldConfig
    /\ claude_json = UsualRegistry

\* ------------------------------------------- claims: convert-docs-to-md.py

\* the file the next step hands to convert_file, if it does
Converting == (cpc = "main" /\ cargs.mode = "file") \/ (cpc = "loop" /\ cqueue # << >>)
Current == IF cpc = "main" THEN docs[1] ELSE Head(cqueue)
\* convert_file gets as far as choosing a converter
Dispatched ==
    /\ Converting
    /\ Current.exists
    /\ Current.ext \in SUPPORTED_FORMATS
    /\ ~(targets[Current.stem].exists /\ ~cargs.overwrite)

Installed(converter) ==
    CASE converter = "pandoc" -> tools.pandoc
      [] converter = "pdftotext" -> tools.pdftotext
      [] converter = "openpyxl" -> tools.openpyxl
      [] OTHER -> tools.pptx

Fallback(ext) ==
    CASE ext = ".pdf" -> "pdftotext"
      [] ext \in {".xlsx", ".xls"} -> "openpyxl"
      [] ext \in {".pptx", ".ppt"} -> "python-pptx"
      [] OTHER -> "pandoc"

\* the converter of a format: as stated, and as the code chooses it
ChosenAsStated(ext) == IF tools.pandoc THEN "pandoc" ELSE Fallback(ext)
Chosen(ext) == IF ext \in {".xlsx", ".xls"} THEN "openpyxl" ELSE ChosenAsStated(ext)

InvokesOnly(converter) ==
    invoked' = IF Dispatched /\ Installed(converter)
               THEN Append(invoked, Invocation(converter, Current))
               ELSE invoked

\* C17 as stated: pandoc is tried first and a format's fallback is used only when
\* pandoc is unavailable: with pandoc no fallback is invoked for any supported
\* extension, without it the fallback of the file's format is the one invoked.
C17_PandocBeforeEveryFallback ==
    [][ InvokesOnly(ChosenAsStated(Current.ext)) ]_vars

\* C17 amended: for .pdf and .pptx/.ppt pandoc is invoked when it is available and
\* the format's fallback (pdftotext, the presentation library) only when it is
\* not; .xlsx/.xls always go to the spreadsheet library, whether or not pandoc is
\* available; the other formats have pandoc alone. A conversion invokes at most
\* that one converter, and invokes it when it is installed.
C17_PandocFirstButSpreadsheets ==
    [][ InvokesOnly(Chosen(Current.ext)) ]_vars

\* witness: with pandoc available, a .pdf went to pandoc and a spreadsheet to the
\* spreadsheet library in the same batch
C17_Witness ==
    /\ cpc = "done" /\ tools.pandoc
    /\ \E i \in DOMAIN invoked :
          invoked[i].converter = "pandoc" /\ invoked[i].doc.ext = ".pdf"
    /\ \E i \in DOMAIN invoked :
          invoked[i].converter = "openpyxl" /\ invoked[i].doc.ext = ".xlsx"

\* a cell is empty when the sheet holds nothing there
IsEmpty(cell) == cell = NoneCell
StatedRow(row) ==
    MdLine("row", "", [i \in DOMAIN row |-> IF IsEmpty(row[i]) THEN "" ELSE row[i].repr])

\* the table rows as stated: the header, then every data row with a non-empty cell
RECURSIVE StatedDataRows(_)
StatedDataRows(rows) ==
    IF rows = << >> THEN << >>
    ELSE (IF \A i \in DOMAIN Head(rows) : IsEmpty(Head(rows)[i])
          THEN << >> ELSE << StatedRow(Head(rows)) >>)
         \o StatedDataRows(Tail(rows))
RECURSIVE StatedRows(_)
StatedRows(wb) ==
    IF wb = << >> THEN << >>
    ELSE (IF Head(wb).data = << >> THEN << >>
          ELSE << StatedRow(Head(Head(wb).data)) >> \o StatedDataRows(Tail(Head(wb).data)))
         \o StatedRows(Tail(wb))

OfKind(body, kind) == SelectSeq(body, LAMBDA l : l.kind = kind)
Converted == cpc = "done" /\ targets["b"].by = "openpyxl"

\* C18 as stated: the converted spreadsheet has one heading per sheet, in order,
\* and under it a table in which a data row is left out exactly when all its cells
\* are empty and a cell is the empty string exactly when it is empty, so that a
\* row or cell holding the number 0 is kept and rendered.
C18_OnlyEmptyRowsOmitted ==
    Converted =>
        /\ OfKind(targets["b"].body, "h2")
             = [i \in DOMAIN workbook |-> MdLine("h2", workbook[i].name, << >>)]
        /\ OfKind(targets["b"].body, "row") = StatedRows(workbook)

\* convert_file is given an existing file of a supported format whose target exists
TargetExists ==
    /\ Converting
    /\ Current.exists
    /\ Current.ext \in SUPPORTED_FORMATS
    /\ targets[Current.stem].exists
\* the step counts the file as a success
CountsSuccess ==
    IF cpc = "main" THEN cexit' = 0
    ELSE success_count' = success_count + 1 /\ fail_count' = fail_count
Skips == invoked' = invoked /\ targets' = targets /\ CountsSuccess

\* C19 as stated: without the overwrite flag an existing target means no converter
\* is invoked, the target stays as it is and the file counts as a success; with
\* the flag the conversion is performed and the target replaced.
C19_OverwriteAlwaysReplaces ==
    [][ TargetExists =>
          IF ~cargs.overwrite THEN Skips
          ELSE invoked' # invoked /\ targets'[Current.stem] # targets[Current.stem]
      ]_vars

\* C19 amended: for an existing input of a supported format whose target exists,
\* without the overwrite flag no converter is invoked, the target stays as it is
\* and the file counts as a success; with the flag the conversion is attempted as
\* for an absent target, and the target is replaced when it succeeds.
C19_SkipUnlessOverwrite ==
    [][ TargetExists =>
          IF ~cargs.overwrite THEN Skips
          ELSE /\ InvokesOnly(Chosen(Current.ext))
               /\ CountsSuccess =>
                    /\ invoked' # invoked
                    /\ targets'[Current.stem] =
                         [targets'[Current.stem] EXCEPT !.exists = TRUE,
                                                        !.by = Chosen(Current.ext),
                                                        !.of = Current.stem \o Current.ext]
                    /\ targets'[Current.stem] # targets[Current.stem]
      ]_vars

\* witness: a batch without the flag in which a.docx was skipped for its existing
\* a.md while b.xlsx, whose target was absent, was converted; both count
C19_Witness ==
    /\ cpc = "done" /\ cargs.mode = "folder" /\ ~cargs.overwrite
    /\ docs = << Doc("a", ".docx", TRUE), Doc("b", ".xlsx", TRUE) >>
    /\ targets["a"] = OldMd
    /\ targets["b"].by = "openpyxl"
    /\ invoked = << Invocation("openpyxl", docs[2]) >>
    /\ success_count = 2 /\ fail_count = 0 /\ cexit = 0

\* the step leaves the target of the current file as a successful conversion
\* does: skipped for an existing target, or written by the format's converter
Effective ==
    /\ Current.exists
    /\ Current.ext \in SUPPORTED_FORMATS
    /\ IF targets[Current.stem].exists /\ ~cargs.overwrite
       THEN invoked' = invoked /\ targets' = targets
       ELSE /\ invoked' = Append(invoked, Invocation(Chosen(Current.ext), Current))
            /\ targets'[Current.stem].exists
            /\ targets'[Current.stem].by = Chosen(Current.ext)
            /\ targets'[Current.stem].of = Current.stem \o Current.ext
\* the step counts the file as a failure
CountsFailure ==
    IF cpc = "main" THEN cexit' # 0
    ELSE fail_count' = fail_count + 1 /\ success_count' = success_count
SupportedFound == Len(SelectSeq(docs, LAMBDA d : d.ext \in SUPPORTED_FORMATS))

BadInput == ~Current.exists \/ Current.ext \notin SUPPORTED_FORMATS

\* C21 as stated: a missing or unsupported input is fatal in single-file mode (the
\* run exits non-zero and writes nothing); in folder mode unsupported files are
\* left out and the others are still converted; a missing input folder is
\* reported as a failure by the exit status.
C21_BadInputFails ==
    [][ /\ (cpc = "main" /\ cargs.mode = "file" /\ BadInput) =>
              cexit' # 0 /\ targets' = targets /\ invoked' = invoked
        /\ (cpc = "main" /\ cargs.mode = "folder" /\ folder_exists) =>
              cqueue' = SelectSeq(docs, LAMBDA d : d.ext \in SUPPORTED_FORMATS)
        /\ (cpc = "loop" /\ cqueue = << >> /\ ~folder_exists) => cexit' # 0
      ]_vars

\* C22 as stated: with --delete-original the input file is gone after its
\* conversion succeeded and is kept when the conversion failed or was skipped;
\* without the flag no input file is deleted.
C22_OriginalDeletedOnSuccess ==
    [][ Converting =>
          IF cargs.delete_original /\ Dispatched /\ CountsSuccess
          THEN \A i \in DOMAIN docs' : docs'[i] = Current => ~docs'[i].exists
          ELSE docs' = docs
      ]_vars

\* the names of the inputs of this run
NamesOf(files) == { files[i].stem \o files[i].ext : i \in DOMAIN files }

\* C29 as stated: in a folder conversion distinct supported inputs have distinct
\* outputs: no file meets a target produced from another input of the same run,
\* so none is skipped for it and none overwrites it.
C29_DistinctOutputs ==
    [][ (cpc = "loop" /\ cqueue # << >>) =>
           ~(/\ targets[Current.stem].exists
             /\ targets[Current.stem].of \in NamesOf(docs) \ {Current.stem \o Current.ext})
      ]_vars

\* ------------------------------------------------ claims: sharepoint-access.py

SiteS == << "/", "sites", "/", "S" >>
ParsedNow == sp_pc # "parse"
HasParam(u, name) == \E i \in DOMAIN u.params : u.params[i].name = name
IdValue(u) == u.params[CHOOSE i \in DOMAIN u.params : u.params[i].name = "id"].value
\* what follows /sites/S in the display path, decoded
RestOf(u) == unquote(SubSeq(u.path, Len(SiteS) + 1, Len(u.path)))

\* C23 as stated: for a URL https://H/sites/S/<rest> without a query parameter
\* named id, _parse_url returns hostname H, site path /sites/S and as item path
\* the decoded <rest> with its leading slash, the empty string when nothing
\* follows the site name.
C23_PathSegments ==
    (ParsedNow /\ IsPrefix(SiteS, sp_url.path) /\ ~HasParam(sp_url, "id")) =>
        /\ hostname = HOST
        /\ site_path = SiteS
        /\ item_path = RestOf(sp_url)

\* a decoded id value /sites/<site>/<library>... names a site and an item path
Canonical(value) ==
    /\ IsPrefix(SITES, unquote(value))
    /\ Len(split(unquote(value), SLASH, Len(value))) >= 4

\* C24 as stated: when the URL has a /sites/ display path and a query parameter
\* id holding a canonical path, site path and item path are those of the decoded
\* id value, whatever the display path says; the result of the path segments is
\* used only when there is no query parameter named id.
C24_IdParameterWins ==
    (ParsedNow /\ IsPrefix(SiteS, sp_url.path)) =>
        /\ (HasParam(sp_url, "id") /\ Canonical(IdValue(sp_url))) =>
              LET id_parts == split(unquote(IdValue(sp_url)), SLASH, 4)
              IN  /\ site_path = SLASH \o id_parts[2] \o SLASH \o id_parts[3]
                  /\ item_path = SLASH \o join(SubSeq(id_parts, 4, Len(id_parts)), SLASH)
        /\ (site_path = SiteS /\ item_path = RestOf(sp_url)) =>
              (~HasParam(sp_url, "id") \/ ~Canonical(IdValue(sp_url)))

\* the calls a step added to the log
NewCalls == SubSeq(issued', Len(issued) + 1, Len(issued'))
Resolution == << Az("version"), Az("account get-access-token"),
                 SiteEndpoint(hostname, site_path), DrivesEndpoint >>
StepOrder == { << "parse", "check_az" >>, << "check_az", "token" >>, << "token", "site" >>,
               << "site", "drives" >>, << "drives", "action" >> }

\* C25: the four resolution steps run in the order CLI check, token exchange,
\* site resolution, library resolution; a failure of one of them ends the run
\* with a non-zero exit before any later step and before the action, and the
\* action starts only after all four succeeded, with token, site ID and drive ID
\* set.
C25_ResolutionPipeline ==
    [][ /\ (sp_pc' # sp_pc /\ sp_pc' # "done") => << sp_pc, sp_pc' >> \in StepOrder
        /\ (sp_pc \in {"check_az", "token", "site", "drives"}) =>
              /\ Len(NewCalls) = 1
              /\ NewCalls[1].what = Resolution[Len(issued) + 1]
              /\ ~NewCalls[1].ok => sp_pc' = "done" /\ sp_exit' # 0
              /\ sp_pc' = "done" => sp_exit' # 0
        /\ (sp_pc = "action") =>
              /\ Len(issued) = 4
              /\ \A i \in 1..4 : issued[i].what = Resolution[i] /\ issued[i].ok
              /\ access_token # NONE /\ site_id # NONE /\ drive_id # NONE
              /\ NewCalls # << >> /\ NewCalls[1].what.of = "drive"
      ]_vars

\* witness: the site could not be resolved; the run ended with exit 1 after three
\* calls and never asked for the libraries or the item
C25_Witness ==
    /\ sp_pc = "done" /\ sp_exit = 1
    /\ Len(issued) = 3
    /\ issued[1].ok /\ issued[2].ok /\ ~issued[3].ok
    /\ issued[3].what = SiteEndpoint(hostname, site_path)
    /\ access_token # NONE /\ site_id = NONE /\ drive_id = NONE

\* C26: an item path with nothing after the site prefix stands for the library
\* root: the list operation asks for the children of the drive root, and no
\* operation asks for an item with a path below the root.
C26_EmptyPathIsRoot ==
    [][ (sp_pc = "action" /\ strip(item_path) = << >>) =>
           /\ sp_action = "list" => NewCalls = << Call(RootChildren, sp_exit' = 0) >>
           /\ \A i \in DOMAIN NewCalls : NewCalls[i].what.path = << >>
      ]_vars

\* witness: a URL that ends with the site name was listed: the fifth request is
\* the one for the children of the drive root
C26_Witness ==
    /\ sp_pc = "done" /\ sp_action = "list"
    /\ sp_url.path = SiteS /\ sp_url.params = << >>
    /\ item_path = << >>
    /\ Len(issued) = 5 /\ issued[5] = Call(RootChildren, TRUE)

\* C30 as stated: list_folder, download_file and get_metadata derive the same
\* drive-relative path from the item path, also when it is the library name alone.
C30_SameRelativePath ==
    ParsedNow => list_relative(item_path) = item_relative(item_path)

\* --------------------------------------------------- claims: setup-linting.py

\* an earlier call that failed is issued again
Reissued(i, j) == i < j /\ ~issued[i].ok /\ issued[j].what = issued[i].what

ExpectedHooks(detected) ==
    BasicHooks
    \o (IF "python" \in detected THEN PythonHooks ELSE << >>)
    \o (IF "typescript" \in detected THEN TypescriptHooks ELSE << >>)
    \o (IF "flutter" \in detected THEN FlutterHooks ELSE << >>)
    \o (IF "terraform" \in detected THEN TerraformHooks ELSE << >>)

\* C28 as stated: for every non-empty set of detected languages
\* generate_pre_commit_config runs to completion and writes
\* .pre-commit-config.yaml with the basic hooks followed by the hooks of each
\* detected language, and a second call writes the same, not more.
C28_ConfigForEveryLanguageSet ==
    [][ (lint_pc = "generate" /\ generated' = generated + 1) =>
           /\ lint_error' = NONE
           /\ config_yaml' = Yaml(detected_languages, ExpectedHooks(detected_languages))
      ]_vars

====
